---- MODULE Spec2Model ----
(***************************************************************************)
(* Incident lifecycle of the repository.                                   *)
(*                                                                         *)
(*   Spec   : service.IncidentService over service.IncidentStore           *)
(*            (pkg/service): store operations and the AI pipeline, called  *)
(*            by concurrent goroutines.                                    *)
(*   SpecID : creation and deletion while the wall clock runs.             *)
(*   SpecU  : UpdateIncident against readers, while the wall clock runs.   *)
(*   SpecSeq: the calls of SpecU made by a single goroutine.               *)
(*   SpecC  : callers writing through the pointers returned to them.       *)
(*   SpecN  : the AI pipeline of a service built with or without client.  *)
(*   SpecK  : incidents created without a severity (keyword heuristic).    *)
(*   SpecL  : ListIncidents against two concurrent UpdateIncident calls.   *)
(*   SpecI  : incident.Service (internal/incident), the service main.go    *)
(*            wires into the HTTP server.                                  *)
(*   SpecT  : every mutation of an incident while the wall clock runs.     *)
(*   SpecH  : handlers.IncidentHandler, the HTTP endpoints over the        *)
(*            service.                                                     *)
(*   SpecP  : the parsers of pkg/ai applied to completion texts.           *)
(*   SpecA  : construction of the AI client (pkg/ai, internal/ai) and the  *)
(*            calls made on it.                                            *)
(*   SpecW  : every operation on one incident, with the queueing of        *)
(*            sync.RWMutex; SpecWF adds the fairness of the scheduler.     *)
(*                                                                         *)
(* A *models.Incident is an index into heap; the store map holds indices,  *)
(* so aliasing between the map, goroutine locals and returned values is    *)
(* visible.  sync.RWMutex is (writer, readers).  Every access to shared    *)
(* memory made outside the mutex is a step of its own.                     *)
(***************************************************************************)
EXTENDS Integers, Sequences, FiniteSets, TLC

\* ------------------------------------------------------------------ bounds
NumProcs     == 2   \* goroutines calling the service
MaxIncidents == 2   \* incidents ever allocated
MaxTime      == 2   \* last value of the wall clock (seconds)
MaxUpdated   == 1   \* incidents allocated in SpecU

Procs  == 1..NumProcs
Goroutines == 1..(NumProcs + 1)   \* Procs and one more caller, for SpecL
NoProc == 0
NilRef == 0
NilTime == 0        \* a nil *time.Time (the clock starts at 1)
NoStatus == 0       \* no status line written
Times  == 1..MaxTime

\* ------------------------------------------------- optional (pointer) values
None      == <<>>
Some(v)   == <<v>>
IsSome(o) == o # <<>>
Val(o)    == o[1]

Range(f) == {f[x] : x \in DOMAIN f}

\* ------------------------------------------------------------- models
SeverityCritical == "critical"
SeverityHigh     == "high"
SeverityMedium   == "medium"
SeverityLow      == "low"
SeverityUnknown  == "unknown"

StatusOpen       == "open"
StatusInProgress == "in_progress"
StatusResolved   == "resolved"
StatusClosed     == "closed"

\* ------------------------------------------------------------- text
\* A Go string is its sequence of bytes; the texts of the model are listed
\* here with their bytes so that substring search works on them.
Chars(s) ==
  CASE s = "api down"  -> <<"a","p","i"," ","d","o","w","n">>
    [] s = "CRITICAL"  -> <<"C","R","I","T","I","C","A","L">>
    [] s = "critical"  -> <<"c","r","i","t","i","c","a","l">>
    [] s = "Critical"  -> <<"C","r","i","t","i","c","a","l">>
    [] s = "slow"      -> <<"s","l","o","w">>
    [] s = "note"      -> <<"n","o","t","e">>
    [] s = "production down" -> <<"p","r","o","d","u","c","t","i","o","n"," ","d","o","w","n">>
    [] s = "data loss" -> <<"d","a","t","a"," ","l","o","s","s">>
    [] s = "security breach" -> <<"s","e","c","u","r","i","t","y"," ","b","r","e","a","c","h">>
    [] s = "error"     -> <<"e","r","r","o","r">>
    [] s = "failure"   -> <<"f","a","i","l","u","r","e">>
    [] s = "down"      -> <<"d","o","w","n">>
    [] s = "unavailable" -> <<"u","n","a","v","a","i","l","a","b","l","e">>
    [] s = "warning"   -> <<"w","a","r","n","i","n","g">>
    [] s = "degraded"  -> <<"d","e","g","r","a","d","e","d">>
    [] s = "high memory" -> <<"h","i","g","h"," ","m","e","m","o","r","y">>
    [] s = "summary" -> <<"s","u","m","m","a","r","y">>
    [] s = "findings" -> <<"f","i","n","d","i","n","g","s">>
    [] s = "root_causes" -> <<"r","o","o","t","_","c","a","u","s","e","s">>
    [] s = "recommended_actions" -> <<"r","e","c","o","m","m","e","n","d","e","d","_","a","c","t","i","o","n","s">>
    [] s = "suggested_severity" -> <<"s","u","g","g","e","s","t","e","d","_","s","e","v","e","r","i","t","y">>
    [] s = "timeline" -> <<"t","i","m","e","l","i","n","e">>
    [] s = "root_cause" -> <<"r","o","o","t","_","c","a","u","s","e">>
    [] s = "impact" -> <<"i","m","p","a","c","t">>
    [] s = "immediate_resolution" -> <<"i","m","m","e","d","i","a","t","e","_","r","e","s","o","l","u","t","i","o","n">>
    [] s = "preventive_measures" -> <<"p","r","e","v","e","n","t","i","v","e","_","m","e","a","s","u","r","e","s">>
    [] s = "lessons_learned" -> <<"l","e","s","s","o","n","s","_","l","e","a","r","n","e","d">>
    [] s = "key_insights" -> <<"k","e","y","_","i","n","s","i","g","h","t","s">>
    [] s = "alerts" -> <<"a","l","e","r","t","s">>
    [] s = "unknown" -> <<"u","n","k","n","o","w","n">>
    [] s = "AI analysis not available (provider not configured)" ->
         <<"A","I"," ","a","n","a","l","y","s","i","s"," ","n","o","t"," ","a","v","a","i","l","a","b","l","e"," ","(","p","r","o","v","i","d","e","r"," ","n","o","t"," ","c","o","n","f","i","g","u","r","e","d",")">>
    [] s = "AI RCA generation not available (provider not configured)" ->
         <<"A","I"," ","R","C","A"," ","g","e","n","e","r","a","t","i","o","n"," ","n","o","t"," ","a","v","a","i","l","a","b","l","e"," ","(","p","r","o","v","i","d","e","r"," ","n","o","t"," ","c","o","n","f","i","g","u","r","e","d",")">>
    [] s = "Log summarization not available (provider not configured)" ->
         <<"L","o","g"," ","s","u","m","m","a","r","i","z","a","t","i","o","n"," ","n","o","t"," ","a","v","a","i","l","a","b","l","e"," ","(","p","r","o","v","i","d","e","r"," ","n","o","t"," ","c","o","n","f","i","g","u","r","e","d",")">>
    [] s = " "         -> <<" ">>
    [] s = ""          -> <<>>

\* hasKeyword: byte-wise substring search, no case folding
hasKeyword(text, keywords) ==
  \E kw \in keywords :
    /\ Len(text) > 0
    /\ Len(Chars(kw)) > 0
    /\ \E i \in 0..(Len(text) - Len(Chars(kw))) :
         SubSeq(text, i + 1, i + Len(Chars(kw))) = Chars(kw)

classifySeverity(title, description) ==
  LET desc == Chars(title) \o Chars(" ") \o Chars(description) IN
  IF hasKeyword(desc, {"critical", "production down", "data loss", "security breach"})
    THEN SeverityCritical
  ELSE IF hasKeyword(desc, {"error", "failure", "down", "unavailable"})
    THEN SeverityHigh
  ELSE IF hasKeyword(desc, {"warning", "degraded", "slow", "high memory"})
    THEN SeverityMedium
  ELSE SeverityLow

\* fmt.Sprintf("%d", n) for n >= 0
RECURSIVE Dec(_)
Dec(n) ==
  LET d == <<"0","1","2","3","4","5","6","7","8","9">>[(n % 10) + 1] IN
  IF n < 10 THEN <<d>> ELSE Dec(n \div 10) \o <<d>>

\* fmt.Sprintf("INC-%d-%d", unix, counter)
FormatID(unix, cnt) == <<"I","N","C","-">> \o Dec(unix) \o <<"-">> \o Dec(cnt)

\* an ID no CreateIncident produces ("nonexistent" in the tests)
NoSuchID == <<"n","o","n","e">>

VARIABLES
  now,        \* time.Now(), in seconds
  counter,    \* IncidentStore.counter
  incidents,  \* IncidentStore.incidents : ID -> *models.Incident
  heap,       \* the models.Incident objects, by allocation order
  writer,     \* IncidentStore.mu : goroutine holding Lock, or NoProc
  readers,    \* IncidentStore.mu : goroutines holding RLock
  pc,         \* position of each goroutine
  op,         \* the call each goroutine is executing and its arguments
  loc,        \* locals of that call
  ret,        \* the value returned by the step just taken (NoRet: no return)
  deleted,    \* history: IDs whose DeleteIncident returned nil
  aiClient,   \* IncidentService.aiClient: "mock", or "nil" (no client given)
  everMatched, \* history kept in SpecL: <<incident, filter>> pairs that have matched
  ipc, iop, iincidents, iwriter, ireaders, iai, inext, iret,  \* incident.Service
  response,   \* handlers.IncidentHandler: the HTTP response written by the step just taken
  raw,        \* ai: the completion text a provider returned
  parsed,     \* ai: what a parser of parsing.go made of it
  client,     \* ai: the client a constructor returned, with its error
  reply       \* ai: what the last method called on the client returned

svars == <<now, counter, incidents, heap, writer, readers, pc, op, loc, ret, deleted,
           aiClient, everMatched>>
ivars == <<ipc, iop, iincidents, iwriter, ireaders, iai, inext, iret>>
xvars == <<response, raw, parsed, client, reply>>
vars  == <<now, counter, incidents, heap, writer, readers, pc, op, loc, ret, deleted,
           aiClient, everMatched,
           ipc, iop, iincidents, iwriter, ireaders, iai, inext, iret,
           response, raw, parsed, client, reply>>


\* ------------------------------------------------------------- inputs
\* models.CreateIncidentRequest values the callers send
CreateReqs ==
  { [title |-> "api down", description |-> "note", source |-> "manual",
     severity |-> None, logs |-> <<"l1">>, tags |-> None, metadata |-> None,
     assignedTo |-> ""],
    [title |-> "CRITICAL", description |-> "note", source |-> "manual",
     severity |-> Some(SeverityCritical), logs |-> <<"l1">>, tags |-> None,
     metadata |-> None, assignedTo |-> ""] }

\* requests without a severity, for the keyword classification
ClassifyReqs ==
  { [title |-> t, description |-> d, source |-> "manual",
     severity |-> None, logs |-> <<>>, tags |-> None, metadata |-> None,
     assignedTo |-> ""] :
    t \in {"note", "api down"},
    d \in {"critical", "CRITICAL", "Critical", "data loss", "error", "failure",
            "warning", "degraded", "slow", "note"} }

\* models.UpdateIncidentRequest values the callers send
NoChange ==
  [title |-> None, description |-> None, severity |-> None, status |-> None,
   logs |-> <<>>, tags |-> None, metadata |-> None, assignedTo |-> None]

UpdateReqs ==
  { [NoChange EXCEPT !.title = Some("slow"), !.severity = Some(SeverityMedium)],
    [NoChange EXCEPT !.title = Some("critical"), !.severity = Some(SeverityCritical),
                     !.description = Some("slow"), !.logs = <<"l2">>,
                     !.tags = Some(<<"prod">>), !.metadata = Some({<<"k", "v">>}),
                     !.assignedTo = Some("bob")],
    [NoChange EXCEPT !.status = Some(StatusResolved)],
    [NoChange EXCEPT !.status = Some(StatusInProgress)],
    [NoChange EXCEPT !.status = Some(StatusClosed)] }

\* filters of ListIncidents
ListFilters ==
  { [status |-> None, severity |-> None],
    [status |-> Some(StatusOpen), severity |-> Some(SeverityCritical)] }

\* what the AI client can answer (ai.AnalysisResponse, ai.RCAResponse)
AnalysisResponses ==
  { [summary |-> "s1", findings |-> <<"f1">>, rootCauses |-> <<"c1">>,
     recommendedActions |-> <<"a1">>, suggestedSeverity |-> "high"],
    [summary |-> "s2", findings |-> <<"f2">>, rootCauses |-> <<"c2">>,
     recommendedActions |-> <<"a2">>, suggestedSeverity |-> "low"] }

RCAResponses ==
  { [timeline |-> "tl", rootCause |-> "rc", impact |-> "im",
     immediateResolution |-> "ir", preventiveMeasures |-> <<"pm">>,
     lessonsLearned |-> <<"ll">>] }

LogInputs == { <<"log 1", "log 2">> }

SummarizeResponses == { [summary |-> "Log summary", keyInsights |-> <<"i1">>, alerts |-> <<"w1">>] }

\* the errors an AI call can end with: a provider error, the deadline exceeded
AIErrors == {"ai", "timeout"}

\* the mock client of the tests: Model() and Provider()
ClientModel    == "gpt-4"
ClientProvider == "openai"

\* ------------------------------------------------------------- helpers
NoOp  == [name |-> "none", id |-> <<>>, req |-> <<>>]
\* calls: the AI client methods this call has invoked so far
\* todo, acc: the keys the range loop of ListIncidents has yet to visit, its results
NoLoc == [id |-> <<>>, ref |-> NilRef, old |-> "", resp |-> <<>>, calls |-> 0,
          todo |-> {}, acc |-> <<>>]
NoRet == [p |-> NoProc, op |-> "none", id |-> <<>>, err |-> "nil", ref |-> NilRef,
          refs |-> <<>>, val |-> <<>>, calls |-> 0]

Returned(name, err, ref) == [NoRet EXCEPT !.op = name, !.err = err, !.ref = ref]

\* IDs a caller may pass: every ID generated so far, and one that never is
KnownIDs == {heap[i].id : i \in 1..Len(heap)} \cup {NoSuchID}

\* sync.RWMutex
CanLock  == writer = NoProc /\ readers = {}
CanRLock == writer = NoProc

\* the goroutine goes back to its caller
Return(p, r) ==
  /\ pc'  = [pc  EXCEPT ![p] = "idle"]
  /\ op'  = [op  EXCEPT ![p] = NoOp]
  /\ loc' = [loc EXCEPT ![p] = NoLoc]
  /\ ret' = [r EXCEPT !.p = p,
                       !.id = IF op[p].name = "create" THEN loc[p].id ELSE op[p].id,
                       !.calls = loc[p].calls]

Goto(p, l) == pc' = [pc EXCEPT ![p] = l]

\* buildTimeline(incident): created, and resolved when set
buildTimeline(inc) ==
  <<<<"Created", inc.createdAt>>>> \o
  (IF inc.resolvedAt # NilTime THEN <<<<"Resolved", inc.resolvedAt>>>> ELSE <<>>)

\* ------------------------------------------------------------- Init
\* NewIncidentStore(), NewIncidentService(store, c, logger)
SNew(c) ==
  /\ aiClient = c
  /\ now = 1
  /\ counter = 0
  /\ incidents = <<>>
  /\ heap = <<>>
  /\ writer = NoProc
  /\ readers = {}
  /\ pc  = [p \in Goroutines |-> "idle"]
  /\ op  = [p \in Goroutines |-> NoOp]
  /\ loc = [p \in Goroutines |-> NoLoc]
  /\ ret = NoRet
  /\ deleted = {}
  /\ everMatched = {}

\* the service built with an AI client, as the tests build it
SInit == SNew("mock")

\* time passes
Tick ==
  /\ now < MaxTime
  /\ now' = now + 1
  /\ UNCHANGED <<counter, incidents, heap, writer, readers, pc, op, loc, deleted>>
  /\ ret' = NoRet

\* ------------------------------------------------------------- CreateIncident
\* incidents allocated, or about to be by a CreateIncident under way
Allocated ==
  Len(heap) + Cardinality({q \in Goroutines : op[q].name = "create" /\ loc[q].ref = NilRef})

\* s.generateID(): s.store.mu.Lock()
\* a caller enters CreateIncident with a request of Reqs: the first statement
\* that synchronises is the Lock of generateID
CreateIncident_LockOf(p, Reqs) ==
  /\ pc[p] = "idle"
  /\ Allocated < MaxIncidents
  /\ CanLock
  /\ \E r \in Reqs : op' = [op EXCEPT ![p] = [name |-> "create", id |-> <<>>, req |-> r]]
  /\ writer' = p
  /\ Goto(p, "cr_genid")
  /\ UNCHANGED <<now, counter, incidents, heap, readers, loc, deleted>>
  /\ ret' = NoRet

CreateIncident_Lock(p) == CreateIncident_LockOf(p, CreateReqs)

\* the counter after generateID's s.store.counter++
NextCounter_NoIncrement(c) == c

NextCounter(c) == c + 1

\* s.generateID(): counter++, Sprintf under the lock, deferred Unlock
generateID(p) ==
  /\ pc[p] = "cr_genid"
  /\ counter' = NextCounter(counter)
  /\ loc' = [loc EXCEPT ![p].id = FormatID(now, counter')]
  /\ writer' = NoProc
  /\ Goto(p, "cr_build")
  /\ UNCHANGED <<now, incidents, heap, readers, op, deleted>>
  /\ ret' = NoRet

\* an incident built with the status in_progress
NewIncident_InProgress(id, req, t) ==
  [id |-> id, title |-> req.title, description |-> req.description,
   source |-> req.source,
   severity |-> IF IsSome(req.severity) THEN Val(req.severity)
                ELSE classifySeverity(req.title, req.description),
   status |-> StatusInProgress, logs |-> req.logs, tags |-> req.tags,
   metadata |-> IF IsSome(req.metadata) THEN req.metadata ELSE Some({}),
   assignedTo |-> req.assignedTo,
   createdAt |-> t, updatedAt |-> t, resolvedAt |-> NilTime,
   aiAnalysis |-> None, rcaDocument |-> None]

\* the &models.Incident{...} literal, the severity and the Metadata default
NewIncident(id, req, t) ==
  [id |-> id, title |-> req.title, description |-> req.description,
   source |-> req.source,
   severity |-> IF IsSome(req.severity) THEN Val(req.severity)
                ELSE classifySeverity(req.title, req.description),
   status |-> StatusOpen, logs |-> req.logs, tags |-> req.tags,
   metadata |-> IF IsSome(req.metadata) THEN req.metadata ELSE Some({}),
   assignedTo |-> req.assignedTo,
   createdAt |-> t, updatedAt |-> t, resolvedAt |-> NilTime,
   aiAnalysis |-> None, rcaDocument |-> None]

CreateIncident_Build(p) ==
  /\ pc[p] = "cr_build"
  /\ heap' = Append(heap, NewIncident(loc[p].id, op[p].req, now))
  /\ loc' = [loc EXCEPT ![p].ref = Len(heap) + 1]
  /\ Goto(p, "cr_lock")
  /\ UNCHANGED <<now, counter, incidents, writer, readers, op, deleted>>
  /\ ret' = NoRet

\* s.store.mu.Lock() before the insert
CreateIncident_Lock2(p) ==
  /\ pc[p] = "cr_lock"
  /\ CanLock
  /\ writer' = p
  /\ Goto(p, "cr_store")
  /\ UNCHANGED <<now, counter, incidents, heap, readers, op, loc, deleted>>
  /\ ret' = NoRet

\* an insert that returns without Unlock
CreateIncident_Store_KeepsLock(p) ==
  /\ pc[p] = "cr_store"
  /\ incidents' = [k \in DOMAIN incidents \cup {loc[p].id} |->
                     IF k = loc[p].id THEN loc[p].ref ELSE incidents[k]]
  /\ Return(p, Returned("create", "nil", loc[p].ref))
  /\ UNCHANGED <<now, counter, heap, writer, readers, deleted>>

\* s.store.incidents[incident.ID] = incident; Unlock; return incident, nil
CreateIncident_Store(p) ==
  /\ pc[p] = "cr_store"
  /\ incidents' = [k \in DOMAIN incidents \cup {loc[p].id} |->
                     IF k = loc[p].id THEN loc[p].ref ELSE incidents[k]]
  /\ writer' = NoProc
  /\ Return(p, Returned("create", "nil", loc[p].ref))
  /\ UNCHANGED <<now, counter, heap, readers, deleted>>


\* ------------------------------------------------------------- GetIncident
\* an AnalyzeIncident / GenerateRCA that calls the AI client before the lookup
GetIncident_RLock_AIFirst(p) ==
  /\ pc[p] = "idle"
  /\ CanRLock
  /\ \E name \in {"get", "analyze", "rca"}, id \in KnownIDs :
       /\ op' = [op EXCEPT ![p] = [name |-> name, id |-> id, req |-> <<>>]]
       /\ loc' = [loc EXCEPT ![p].calls = IF name = "get" THEN 0 ELSE 1]
  /\ readers' = readers \cup {p}
  /\ Goto(p, "get_read")
  /\ UNCHANGED <<now, counter, incidents, heap, writer, deleted>>
  /\ ret' = NoRet

\* s.store.mu.RLock(); also the first statement of AnalyzeIncident and
\* GenerateRCA, which call s.GetIncident(id)
GetIncident_RLock(p) ==
  /\ pc[p] = "idle"
  /\ CanRLock
  /\ \E name \in {"get", "analyze", "rca"}, id \in KnownIDs :
       op' = [op EXCEPT ![p] = [name |-> name, id |-> id, req |-> <<>>]]
  /\ readers' = readers \cup {p}
  /\ Goto(p, "get_read")
  /\ UNCHANGED <<now, counter, incidents, heap, writer, loc, deleted>>
  /\ ret' = NoRet

\* s.store.mu.RUnlock() of GetIncident, whoever called it
RUnlock_KeptByAnalyze(p) == IF op[p].name = "get" THEN readers \ {p} ELSE readers

RUnlock(p) == readers \ {p}

\* incident, ok := s.store.incidents[id]; RUnlock; return
GetIncident_Read(p) ==
  /\ pc[p] = "get_read"
  /\ readers' = RUnlock(p)
  /\ IF op[p].id \notin DOMAIN incidents
       THEN Return(p, Returned(op[p].name, "notfound", NilRef))
     ELSE IF op[p].name = "get"
       THEN Return(p, Returned("get", "nil", incidents[op[p].id]))
     ELSE /\ loc' = [loc EXCEPT ![p].ref = incidents[op[p].id]]
          /\ Goto(p, IF op[p].name = "analyze" THEN "an_call" ELSE "rca_call")
          /\ UNCHANGED op /\ ret' = NoRet
  /\ UNCHANGED <<now, counter, incidents, heap, writer, deleted>>

\* ------------------------------------------------------------- ListIncidents
\* s.store.mu.RLock(); the range loop starts on the keys of the map, which
\* cannot change while the read lock is held
ListIncidents_RLock(p) ==
  /\ pc[p] = "idle"
  /\ CanRLock
  /\ \E f \in ListFilters : op' = [op EXCEPT ![p] = [name |-> "list", id |-> <<>>, req |-> f]]
  /\ readers' = readers \cup {p}
  /\ loc' = [loc EXCEPT ![p].todo = DOMAIN incidents]
  /\ Goto(p, "list_scan")
  /\ UNCHANGED <<now, counter, incidents, heap, writer, deleted>>
  /\ ret' = NoRet

\* the filter of the range loop
Matches(inc, f) ==
  /\ ~ (IsSome(f.status) /\ inc.status # Val(f.status))
  /\ ~ (IsSome(f.severity) /\ inc.severity # Val(f.severity))

\* the sequences that hold every element of S once (map iteration order)
Orders(S) ==
  {sq \in UNION {[1..n -> S] : n \in {Cardinality(S)}} :
     \A i, j \in DOMAIN sq : i # j => sq[i] # sq[j]}

\* the loop goes on with the keys left, or ends: RUnlock; return results, nil
ListIncidents_Continue(p, todo, acc) ==
  IF todo = {}
    THEN /\ readers' = RUnlock(p)
         /\ Return(p, [Returned("list", "nil", NilRef) EXCEPT !.refs = acc])
    ELSE /\ loc' = [loc EXCEPT ![p].todo = todo, ![p].acc = acc, ![p].id = <<>>]
         /\ Goto(p, "list_scan")
         /\ UNCHANGED <<op, readers>>
         /\ ret' = NoRet

\* one iteration of the range loop, up to its first read of a field that an
\* UpdateIncident may be assigning: incident.Status when there is a status
\* filter, else incident.Severity; the map hands out its keys in any order
ListIncidents_Scan(p) ==
  /\ pc[p] = "list_scan"
  /\ UNCHANGED <<now, counter, incidents, heap, writer, deleted>>
  /\ LET f == op[p].req IN
     IF loc[p].todo = {}
       THEN ListIncidents_Continue(p, {}, loc[p].acc)
       ELSE \E k \in loc[p].todo :
              LET inc  == heap[incidents[k]]
                  rest == loc[p].todo \ {k} IN
              IF IsSome(f.status) /\ inc.status # Val(f.status)
                THEN ListIncidents_Continue(p, rest, loc[p].acc)
              ELSE IF IsSome(f.status) /\ IsSome(f.severity)
                THEN /\ loc' = [loc EXCEPT ![p].id = k]
                     /\ Goto(p, "list_sev")
                     /\ UNCHANGED <<op, readers>>
                     /\ ret' = NoRet
              ELSE IF IsSome(f.severity) /\ inc.severity # Val(f.severity)
                THEN ListIncidents_Continue(p, rest, loc[p].acc)
              ELSE ListIncidents_Continue(p, rest, Append(loc[p].acc, incidents[k]))

\* the same iteration at its severity filter: incident.Severity is read
ListIncidents_Severity(p) ==
  /\ pc[p] = "list_sev"
  /\ UNCHANGED <<now, counter, incidents, heap, writer, deleted>>
  /\ LET k    == loc[p].id
         rest == loc[p].todo \ {k} IN
     IF heap[incidents[k]].severity # Val(op[p].req.severity)
       THEN ListIncidents_Continue(p, rest, loc[p].acc)
       ELSE ListIncidents_Continue(p, rest, Append(loc[p].acc, incidents[k]))

\* ------------------------------------------------------------- DeleteIncident
DeleteIncident_Lock(p) ==
  /\ pc[p] = "idle"
  /\ CanLock
  /\ \E id \in KnownIDs : op' = [op EXCEPT ![p] = [name |-> "delete", id |-> id, req |-> <<>>]]
  /\ writer' = p
  /\ Goto(p, "del_body")
  /\ UNCHANGED <<now, counter, incidents, heap, readers, loc, deleted>>
  /\ ret' = NoRet

\* delete(m, id)
Remove_Noop(m, id) == m

Remove(m, id) == [k \in DOMAIN m \ {id} |-> m[k]]

\* a delete that reports success for an ID that is not in the store
DeleteIncident_Body_Idempotent(p) ==
  /\ pc[p] = "del_body"
  /\ writer' = NoProc
  /\ incidents' = Remove(incidents, op[p].id)
  /\ deleted' = deleted \cup {op[p].id}
  /\ Return(p, Returned("delete", "nil", NilRef))
  /\ UNCHANGED <<now, counter, heap, readers>>

\* the lookup, delete(s.store.incidents, id), Unlock, return
DeleteIncident_Body(p) ==
  /\ pc[p] = "del_body"
  /\ writer' = NoProc
  /\ IF op[p].id \notin DOMAIN incidents
       THEN /\ Return(p, Returned("delete", "notfound", NilRef))
            /\ UNCHANGED <<incidents, deleted>>
       ELSE /\ incidents' = Remove(incidents, op[p].id)
            /\ deleted' = deleted \cup {op[p].id}
            /\ Return(p, Returned("delete", "nil", NilRef))
  /\ UNCHANGED <<now, counter, heap, readers>>


\* ------------------------------------------------------------- UpdateIncident
\* s.store.mu.Lock()
\* a caller enters UpdateIncident with a request of Reqs
UpdateIncident_LockOf(p, Reqs) ==
  /\ pc[p] = "idle"
  /\ CanLock
  /\ \E id \in KnownIDs, r \in Reqs :
       op' = [op EXCEPT ![p] = [name |-> "update", id |-> id, req |-> r]]
  /\ writer' = p
  /\ Goto(p, "upd_lookup")
  /\ UNCHANGED <<now, counter, incidents, heap, readers, loc, deleted>>
  /\ ret' = NoRet

UpdateIncident_Lock(p) == UpdateIncident_LockOf(p, UpdateReqs)

\* the statements of UpdateIncident that touch the incident, in program order
UpdStages ==
  <<"upd_title", "upd_desc", "upd_sev", "upd_oldstatus", "upd_status", "upd_resolved",
    "upd_logs", "upd_tags", "upd_meta", "upd_assign", "upd_time">>

Applies_EmptyLogs(stage, req, old) ==
  CASE stage = "upd_title"     -> IsSome(req.title)
    [] stage = "upd_desc"      -> IsSome(req.description)
    [] stage = "upd_sev"       -> IsSome(req.severity)
    [] stage = "upd_oldstatus" -> IsSome(req.status)
    [] stage = "upd_status"    -> IsSome(req.status)
    [] stage = "upd_resolved"  -> /\ IsSome(req.status)
                                  /\ Val(req.status) = StatusResolved
                                  /\ old # StatusResolved
    [] stage = "upd_logs"      -> TRUE
    [] stage = "upd_tags"      -> IsSome(req.tags)
    [] stage = "upd_meta"      -> IsSome(req.metadata)
    [] stage = "upd_assign"    -> IsSome(req.assignedTo)
    [] stage = "upd_time"      -> TRUE

\* the if-conditions guarding each of them
Applies(stage, req, old) ==
  CASE stage = "upd_title"     -> IsSome(req.title)
    [] stage = "upd_desc"      -> IsSome(req.description)
    [] stage = "upd_sev"       -> IsSome(req.severity)
    [] stage = "upd_oldstatus" -> IsSome(req.status)
    [] stage = "upd_status"    -> IsSome(req.status)
    [] stage = "upd_resolved"  -> /\ IsSome(req.status)
                                  /\ Val(req.status) = StatusResolved
                                  /\ old # StatusResolved
    [] stage = "upd_logs"      -> Len(req.logs) > 0
    [] stage = "upd_tags"      -> IsSome(req.tags)
    [] stage = "upd_meta"      -> IsSome(req.metadata)
    [] stage = "upd_assign"    -> IsSome(req.assignedTo)
    [] stage = "upd_time"      -> TRUE

StageIndex(stage) == CHOOSE i \in DOMAIN UpdStages : UpdStages[i] = stage

\* the next statement that executes after statement number i (0: the lookup)
NextStage(i, req, old) ==
  UpdStages[CHOOSE j \in (i + 1)..Len(UpdStages) :
              /\ Applies(UpdStages[j], req, old)
              /\ \A k \in (i + 1)..(j - 1) : ~ Applies(UpdStages[k], req, old)]

\* incident, ok := s.store.incidents[id]; Unlock; the not-found return
UpdateIncident_Lookup(p) ==
  /\ pc[p] = "upd_lookup"
  /\ writer' = NoProc
  /\ IF op[p].id \notin DOMAIN incidents
       THEN Return(p, Returned("update", "notfound", NilRef))
       ELSE /\ loc' = [loc EXCEPT ![p].ref = incidents[op[p].id]]
            /\ Goto(p, NextStage(0, op[p].req, ""))
            /\ UNCHANGED op /\ ret' = NoRet
  /\ UNCHANGED <<now, counter, incidents, heap, readers, deleted>>

\* oldStatus := incident.Status
UpdateIncident_OldStatus(p) ==
  /\ pc[p] = "upd_oldstatus"
  /\ loc' = [loc EXCEPT ![p].old = heap[loc[p].ref].status]
  /\ Goto(p, "upd_status")
  /\ UNCHANGED <<now, counter, incidents, heap, writer, readers, op, deleted>>
  /\ ret' = NoRet

\* one assignment to a field of the incident
ApplyStage_ClearsResolvedAt(inc, stage, req, t) ==
  CASE stage = "upd_title"    -> [inc EXCEPT !.title = Val(req.title)]
    [] stage = "upd_desc"     -> [inc EXCEPT !.description = Val(req.description)]
    [] stage = "upd_sev"      -> [inc EXCEPT !.severity = Val(req.severity)]
    [] stage = "upd_status"   ->
         [inc EXCEPT !.status = Val(req.status),
                     !.resolvedAt = IF Val(req.status) = StatusResolved THEN @ ELSE NilTime]
    [] stage = "upd_resolved" -> [inc EXCEPT !.resolvedAt = t]
    [] stage = "upd_logs"     -> [inc EXCEPT !.logs = req.logs]
    [] stage = "upd_tags"     -> [inc EXCEPT !.tags = req.tags]
    [] stage = "upd_meta"     -> [inc EXCEPT !.metadata = req.metadata]
    [] stage = "upd_assign"   -> [inc EXCEPT !.assignedTo = Val(req.assignedTo)]
    [] stage = "upd_time"     -> [inc EXCEPT !.updatedAt = t]

ApplyStage(inc, stage, req, t) ==
  CASE stage = "upd_title"    -> [inc EXCEPT !.title = Val(req.title)]
    [] stage = "upd_desc"     -> [inc EXCEPT !.description = Val(req.description)]
    [] stage = "upd_sev"      -> [inc EXCEPT !.severity = Val(req.severity)]
    [] stage = "upd_status"   -> [inc EXCEPT !.status = Val(req.status)]
    [] stage = "upd_resolved" -> [inc EXCEPT !.resolvedAt = t]
    [] stage = "upd_logs"     -> [inc EXCEPT !.logs = req.logs]
    [] stage = "upd_tags"     -> [inc EXCEPT !.tags = req.tags]
    [] stage = "upd_meta"     -> [inc EXCEPT !.metadata = req.metadata]
    [] stage = "upd_assign"   -> [inc EXCEPT !.assignedTo = Val(req.assignedTo)]
    [] stage = "upd_time"     -> [inc EXCEPT !.updatedAt = t]

FieldStages == {UpdStages[i] : i \in DOMAIN UpdStages} \ {"upd_oldstatus", "upd_time"}

\* incident.<Field> = ..., executed after the lock was released
UpdateIncident_Field(p) ==
  /\ pc[p] \in FieldStages
  /\ heap' = [heap EXCEPT ![loc[p].ref] = ApplyStage(@, pc[p], op[p].req, now)]
  /\ Goto(p, NextStage(StageIndex(pc[p]), op[p].req, loc[p].old))
  /\ UNCHANGED <<now, counter, incidents, writer, readers, op, loc, deleted>>
  /\ ret' = NoRet

\* incident.UpdatedAt = time.Now(); return incident, nil
UpdateIncident_Done(p) ==
  /\ pc[p] = "upd_time"
  /\ heap' = [heap EXCEPT ![loc[p].ref] = ApplyStage(@, "upd_time", op[p].req, now)]
  /\ Return(p, Returned("update", "nil", loc[p].ref))
  /\ UNCHANGED <<now, counter, incidents, writer, readers, deleted>>

\* ------------------------------------------------------------- AnalyzeIncident
\* analysisReq built from the incident; s.aiClient.AnalyzeIncident(ctx, req) starts
AnalyzeIncident_Call(p) ==
  /\ pc[p] = "an_call"
  /\ IF aiClient = "nil"
       THEN Return(p, Returned("analyze", "panic", NilRef))
       ELSE /\ loc' = [loc EXCEPT ![p].calls = @ + 1]
            /\ Goto(p, "an_ai")
            /\ UNCHANGED op /\ ret' = NoRet
  /\ UNCHANGED <<now, counter, incidents, heap, writer, readers, deleted>>

\* a failing AI call after which the incident is not returned
AnalyzeIncident_AIReturn_DropsIncident(p) ==
  /\ pc[p] = "an_ai"
  /\ \/ \E e \in AIErrors : Return(p, Returned("analyze", e, NilRef))
     \/ \E a \in AnalysisResponses :
          /\ loc' = [loc EXCEPT ![p].resp = Some(a)]
          /\ Goto(p, "an_lock")
          /\ UNCHANGED op /\ ret' = NoRet
  /\ UNCHANGED <<now, counter, incidents, heap, writer, readers, deleted>>

\* the AI call returns: an error (return incident, err) or a response
AnalyzeIncident_AIReturn(p) ==
  /\ pc[p] = "an_ai"
  /\ \/ \E e \in AIErrors : Return(p, Returned("analyze", e, loc[p].ref))
     \/ \E a \in AnalysisResponses :
          /\ loc' = [loc EXCEPT ![p].resp = Some(a)]
          /\ Goto(p, "an_lock")
          /\ UNCHANGED op /\ ret' = NoRet
  /\ UNCHANGED <<now, counter, incidents, heap, writer, readers, deleted>>

\* s.store.mu.Lock() before the write-back
AnalyzeIncident_Lock(p) ==
  /\ pc[p] = "an_lock"
  /\ CanLock
  /\ writer' = p
  /\ Goto(p, "an_write")
  /\ UNCHANGED <<now, counter, incidents, heap, readers, op, loc, deleted>>
  /\ ret' = NoRet

\* models.AIAnalysis built from the response
NewAIAnalysis(a, t) ==
  [summary |-> a.summary, findings |-> a.findings, rootCauses |-> a.rootCauses,
   recommendedActions |-> a.recommendedActions,
   severitySuggestion |-> a.suggestedSeverity,
   generatedAt |-> t, model |-> ClientModel, provider |-> ClientProvider]

\* a write-back that appends to the analysis already there
AnalyzeIncident_Write_Appends(p) ==
  /\ pc[p] = "an_write"
  /\ LET inc == heap[loc[p].ref]
         new == NewAIAnalysis(Val(loc[p].resp), now) IN
       heap' = [heap EXCEPT ![loc[p].ref] =
                  [inc EXCEPT !.aiAnalysis =
                                 IF IsSome(inc.aiAnalysis)
                                   THEN Some([new EXCEPT !.findings =
                                                Val(inc.aiAnalysis).findings \o new.findings])
                                   ELSE Some(new),
                              !.updatedAt = now]]
  /\ writer' = NoProc
  /\ Return(p, Returned("analyze", "nil", loc[p].ref))
  /\ UNCHANGED <<now, counter, incidents, readers, deleted>>

\* incident.AIAnalysis = ...; incident.UpdatedAt = now; Unlock; return incident, nil
AnalyzeIncident_Write(p) ==
  /\ pc[p] = "an_write"
  /\ heap' = [heap EXCEPT ![loc[p].ref] =
                [@ EXCEPT !.aiAnalysis = Some(NewAIAnalysis(Val(loc[p].resp), now)),
                          !.updatedAt = now]]
  /\ writer' = NoProc
  /\ Return(p, Returned("analyze", "nil", loc[p].ref))
  /\ UNCHANGED <<now, counter, incidents, readers, deleted>>

\* ------------------------------------------------------------- GenerateRCA
\* rcaReq built from the incident (its AIAnalysis when present, buildTimeline);
\* s.aiClient.GenerateRCA(ctx, rcaReq) starts
GenerateRCA_Call(p) ==
  /\ pc[p] = "rca_call"
  /\ IF aiClient = "nil"
       THEN Return(p, Returned("rca", "panic", NilRef))
       ELSE /\ loc' = [loc EXCEPT ![p].calls = @ + 1]
            /\ Goto(p, "rca_ai")
            /\ UNCHANGED op /\ ret' = NoRet
  /\ UNCHANGED <<now, counter, incidents, heap, writer, readers, deleted>>

GenerateRCA_AIReturn(p) ==
  /\ pc[p] = "rca_ai"
  /\ \/ \E e \in AIErrors : Return(p, Returned("rca", e, loc[p].ref))
     \/ \E r \in RCAResponses :
          /\ loc' = [loc EXCEPT ![p].resp = Some(r)]
          /\ Goto(p, "rca_lock")
          /\ UNCHANGED op /\ ret' = NoRet
  /\ UNCHANGED <<now, counter, incidents, heap, writer, readers, deleted>>

GenerateRCA_Lock(p) ==
  /\ pc[p] = "rca_lock"
  /\ CanLock
  /\ writer' = p
  /\ Goto(p, "rca_write")
  /\ UNCHANGED <<now, counter, incidents, heap, readers, op, loc, deleted>>
  /\ ret' = NoRet

\* models.RCADocument built from the response and the incident
NewRCADocument(r, inc, t) ==
  [timeline |-> buildTimeline(inc), rootCause |-> r.rootCause, impact |-> r.impact,
   immediateResolution |-> r.immediateResolution,
   preventiveMeasures |-> r.preventiveMeasures, lessonsLearned |-> r.lessonsLearned,
   generatedAt |-> t, model |-> ClientModel, provider |-> ClientProvider]

\* a write-back that leaves UpdatedAt as it was
GenerateRCA_Write_KeepsUpdatedAt(p) ==
  /\ pc[p] = "rca_write"
  /\ LET inc == heap[loc[p].ref] IN
       heap' = [heap EXCEPT ![loc[p].ref] =
                  [inc EXCEPT !.rcaDocument = Some(NewRCADocument(Val(loc[p].resp), inc, now))]]
  /\ writer' = NoProc
  /\ Return(p, Returned("rca", "nil", loc[p].ref))
  /\ UNCHANGED <<now, counter, incidents, readers, deleted>>

GenerateRCA_Write(p) ==
  /\ pc[p] = "rca_write"
  /\ LET inc == heap[loc[p].ref] IN
       heap' = [heap EXCEPT ![loc[p].ref] =
                  [inc EXCEPT !.rcaDocument = Some(NewRCADocument(Val(loc[p].resp), inc, now)),
                              !.updatedAt = now]]
  /\ writer' = NoProc
  /\ Return(p, Returned("rca", "nil", loc[p].ref))
  /\ UNCHANGED <<now, counter, incidents, readers, deleted>>

\* ------------------------------------------------------------- SummarizeLogs
\* s.aiClient.SummarizeLogs(ctx, req) starts; the store is not touched
SummarizeLogs_Call(p) ==
  /\ pc[p] = "idle"
  /\ IF aiClient = "nil"
       THEN /\ ret' = [Returned("summarize", "panic", NilRef) EXCEPT !.p = p]
            /\ UNCHANGED <<pc, op, loc>>
       ELSE /\ \E l \in LogInputs :
                 op' = [op EXCEPT ![p] = [name |-> "summarize", id |-> <<>>, req |-> l]]
            /\ loc' = [loc EXCEPT ![p].calls = @ + 1]
            /\ Goto(p, "sum_ai")
            /\ ret' = NoRet
  /\ UNCHANGED <<now, counter, incidents, heap, writer, readers, deleted>>

SummarizeLogs_AIReturn(p) ==
  /\ pc[p] = "sum_ai"
  /\ \/ \E e \in AIErrors : Return(p, Returned("summarize", e, NilRef))
     \/ \E r \in SummarizeResponses :
          Return(p, [Returned("summarize", "nil", NilRef) EXCEPT
                      !.val = Some([summary |-> r.summary, keyInsights |-> r.keyInsights,
                                    alerts |-> r.alerts, generatedAt |-> now])])
  /\ UNCHANGED <<now, counter, incidents, heap, writer, readers, deleted>>

\* ------------------------------------------------------------- specifications
\* the steps of each method of IncidentService
CreateIncident(p) ==
  \/ CreateIncident_Lock(p) \/ generateID(p) \/ CreateIncident_Build(p)
  \/ CreateIncident_Lock2(p) \/ CreateIncident_Store(p)

GetIncident(p) == GetIncident_RLock(p) \/ GetIncident_Read(p)

ListIncidents(p) ==
  ListIncidents_RLock(p) \/ ListIncidents_Scan(p) \/ ListIncidents_Severity(p)

UpdateIncident(p) ==
  \/ UpdateIncident_Lock(p) \/ UpdateIncident_Lookup(p) \/ UpdateIncident_OldStatus(p)
  \/ UpdateIncident_Field(p) \/ UpdateIncident_Done(p)

DeleteIncident(p) == DeleteIncident_Lock(p) \/ DeleteIncident_Body(p)

AnalyzeIncident(p) ==
  \/ AnalyzeIncident_Call(p) \/ AnalyzeIncident_AIReturn(p)
  \/ AnalyzeIncident_Lock(p) \/ AnalyzeIncident_Write(p)

GenerateRCA(p) ==
  \/ GenerateRCA_Call(p) \/ GenerateRCA_AIReturn(p)
  \/ GenerateRCA_Lock(p) \/ GenerateRCA_Write(p)

SummarizeLogs(p) == SummarizeLogs_Call(p) \/ SummarizeLogs_AIReturn(p)

\* incident.Service is not instantiated in the specifications of IncidentService
INone ==
  /\ ipc = [p \in Procs |-> "idle"]
  /\ iop = [p \in Procs |-> NoOp]
  /\ iincidents = <<>>
  /\ iwriter = NoProc
  /\ ireaders = {}
  /\ iai = "nil"
  /\ inext = 0
  /\ iret = NoRet

\* no HTTP response has been written
NoResponse == [p |-> NoProc, route |-> "none", code |-> NoStatus, cause |-> "none"]

\* nothing parsed yet
NoParse == [fn |-> "none", res |-> None, err |-> "nil"]

\* an error value of package ai: the package sentinel errors.Is finds in it
\* ("" when it wraps none) and the cause it carries
NilError == [nil |-> TRUE, sentinel |-> "", cause |-> ""]
Error(sentinel, cause) == [nil |-> FALSE, sentinel |-> sentinel, cause |-> cause]

\* no client constructed, no method called
NoClient == [factory |-> "none", cfg |-> <<>>, client |-> None, err |-> NilError]
NoReply  == [method |-> "none", exchange |-> "none", res |-> None, err |-> NilError]

\* the HTTP handlers and package ai are not exercised
XNone ==
  /\ response = NoResponse
  /\ raw = <<>> /\ parsed = NoParse
  /\ client = NoClient /\ reply = NoReply

Init == SInit /\ INone /\ XNone

\* callers that always send a severity
ExplicitSeverity(p) == pc[p] = "idle" => IsSome(op'[p].req.severity)

\* Spec: the store and the AI pipeline, all calls within one second of the clock
NextAI ==
  \E p \in Procs :
    \/ (CreateIncident(p) /\ ExplicitSeverity(p))
    \/ GetIncident(p) \/ ListIncidents(p) \/ DeleteIncident(p)
    \/ AnalyzeIncident(p) \/ GenerateRCA(p) \/ SummarizeLogs(p)

Next == NextAI /\ UNCHANGED <<xvars, ivars, aiClient, everMatched>>

Spec == Init /\ [][Next]_vars

\* SpecID: identity generation while the clock runs
NextID ==
  \/ Tick
  \/ \E p \in Procs : (CreateIncident(p) /\ ExplicitSeverity(p)) \/ DeleteIncident(p)

SpecID == Init /\ [][NextID /\ UNCHANGED <<xvars, ivars, aiClient, everMatched>>]_vars

\* SpecU: updates of the incidents while the clock runs
StepU(p) ==
  \/ (CreateIncident(p) /\ (pc[p] = "idle" => Allocated < MaxUpdated))
  \/ GetIncident(p) \/ ListIncidents(p) \/ UpdateIncident(p) \/ DeleteIncident(p)

NextU == Tick \/ \E p \in Procs : StepU(p)

SpecU == Init /\ [][NextU /\ UNCHANGED <<xvars, ivars, aiClient, everMatched>>]_vars

\* SpecSeq: the calls of SpecU made one after another by a single goroutine
NextSeq == Tick \/ StepU(1)

SpecSeq == Init /\ [][NextSeq /\ UNCHANGED <<xvars, ivars, aiClient, everMatched>>]_vars

\* SpecT: every mutation of an incident (create, update, the write-backs of
\* AnalyzeIncident and GenerateRCA) while the clock runs
TimedUpdateReqs ==
  {r \in UpdateReqs : r.status = Some(StatusResolved) \/ r.severity = Some(SeverityMedium)}

StepT(p) ==
  \/ (CreateIncident(p) /\ ExplicitSeverity(p)
        /\ (pc[p] = "idle" => Allocated < MaxUpdated))
  \/ (GetIncident(p) /\ (pc[p] = "idle" => op'[p].name # "get"))
  \/ (UpdateIncident(p) /\ (pc[p] = "idle" => op'[p].req \in TimedUpdateReqs))
  \/ AnalyzeIncident(p) \/ GenerateRCA(p)

NextT == Tick \/ \E p \in Procs : StepT(p)

SpecT == Init /\ [][NextT /\ UNCHANGED <<xvars, ivars, aiClient, everMatched>>]_vars

\* SpecW: every operation of the service on one incident, with the queueing
\* of sync.RWMutex: a goroutine blocked in Lock keeps new readers out, and a
\* goroutine blocked in Lock or RLock gets the mutex after finitely many
\* releases (SpecWF)
PendingWriters == {q \in Procs : pc[q] \in {"cr_lock", "an_lock", "rca_lock"}}

StepW(p) ==
  \/ (CreateIncident(p) /\ ExplicitSeverity(p)
        /\ (pc[p] = "idle" => Allocated < MaxUpdated))
  \/ (GetIncident(p) /\ (pc[p] = "idle" => PendingWriters = {}))
  \/ (ListIncidents(p) /\ (pc[p] = "idle" => PendingWriters = {}))
  \/ (UpdateIncident(p) /\ (pc[p] = "idle" => op'[p].req \in TimedUpdateReqs))
  \/ DeleteIncident(p)
  \/ AnalyzeIncident(p) \/ GenerateRCA(p) \/ SummarizeLogs(p)

NextW == \E p \in Procs : StepW(p)

SpecW == Init /\ [][NextW /\ UNCHANGED <<xvars, ivars, aiClient, everMatched>>]_vars

\* a call under way takes its next step: statements run, the AI client
\* returns, and the mutex is handed to a goroutine that waits for it
Continue(p) ==
  pc[p] # "idle" /\ StepW(p) /\ UNCHANGED <<xvars, ivars, aiClient, everMatched>>

SpecWF == SpecW /\ \A p \in Procs : SF_vars(Continue(p))

\* SpecL: ListIncidents against UpdateIncident calls of two other goroutines
\* that change the status and the severity, on one incident created without a
\* severity; everMatched records which filters the incident has satisfied
ListUpdateReqs ==
  {r \in UpdateReqs : r.status = Some(StatusResolved) \/ r.severity = Some(SeverityCritical)}

StepL(p) ==
  \/ (CreateIncident(p)
        /\ (pc[p] = "idle" => Allocated < MaxUpdated /\ ~ IsSome(op'[p].req.severity)))
  \/ ListIncidents(p)
  \/ (UpdateIncident(p) /\ (pc[p] = "idle" => op'[p].req \in ListUpdateReqs))

NextL ==
  /\ \E p \in Goroutines : StepL(p)
  /\ everMatched' = everMatched \cup
        {<<i, f>> \in (1..Len(heap')) \X ListFilters : Matches(heap'[i], f)}

SpecL == Init /\ [][NextL /\ UNCHANGED <<xvars, ivars, aiClient>>]_vars

\* SpecK: incidents created without a severity, classified by keyword
NextK ==
  \E p \in Procs :
    \/ CreateIncident_LockOf(p, ClassifyReqs)
    \/ generateID(p) \/ CreateIncident_Build(p)
    \/ CreateIncident_Lock2(p) \/ CreateIncident_Store(p)

SpecK == Init /\ [][NextK /\ UNCHANGED <<xvars, ivars, aiClient, everMatched>>]_vars

\* SpecN: the AI pipeline of a service built with or without an AI client
InitN == (\E c \in {"nil", "mock"} : SNew(c)) /\ INone /\ XNone

NextN ==
  \E p \in Procs :
    \/ (CreateIncident(p) /\ ExplicitSeverity(p)
          /\ (pc[p] = "idle" => Allocated < MaxUpdated))
    \/ GetIncident(p) \/ AnalyzeIncident(p) \/ GenerateRCA(p) \/ SummarizeLogs(p)

SpecN == InitN /\ [][NextN /\ UNCHANGED <<xvars, ivars, aiClient, everMatched>>]_vars

\* a caller assigns to a field of an incident the service returned to it
\* (CreateIncident and GetIncident return the pointer kept in the map)
CallerWrites(p) ==
  /\ pc[p] = "idle"
  /\ \E i \in 1..Len(heap) :
       /\ \A q \in Procs : ~ (op[q].name = "create" /\ loc[q].ref = i)
       /\ heap[i].title # "note"
       /\ heap' = [heap EXCEPT ![i].title = "note"]
  /\ ret' = NoRet
  /\ UNCHANGED <<now, counter, incidents, writer, readers, pc, op, loc, deleted>>

\* SpecC: callers that create, get, and write to what they were returned;
\* no mutation method of the service is called
NextC ==
  \E p \in Procs :
    \/ (CreateIncident(p) /\ ExplicitSeverity(p))
    \/ GetIncident_RLock(p) /\ op'[p].name = "get"
    \/ GetIncident_Read(p)
    \/ CallerWrites(p)

SpecC == Init /\ [][NextC /\ UNCHANGED <<xvars, ivars, aiClient, everMatched>>]_vars

\* ------------------------------------------------------------- incident.Service
\* models.CreateIncidentRequest of internal/incident: Severity is a plain string
ICreateReqs ==
  { [title |-> "api down", description |-> "note", severity |-> "", source |-> "manual"],
    [title |-> "api down", description |-> "note", severity |-> SeverityHigh,
     source |-> "manual"] }

Severities == {SeverityCritical, SeverityHigh, SeverityMedium, SeverityLow}
Statuses   == {StatusOpen, StatusInProgress, StatusResolved, StatusClosed}

\* uuid.New().String(): a fresh identifier
NoSuchUUID == 0
KnownUUIDs == (1..inext) \cup {NoSuchUUID}

CanILock  == iwriter = NoProc /\ ireaders = {}
CanIRLock == iwriter = NoProc

IReturn(p, r) ==
  /\ ipc' = [ipc EXCEPT ![p] = "idle"]
  /\ iop' = [iop EXCEPT ![p] = NoOp]
  /\ iret' = [r EXCEPT !.p = p]

IInit ==
  /\ ipc = [p \in Procs |-> "idle"]
  /\ iop = [p \in Procs |-> NoOp]
  /\ iincidents = <<>>
  /\ iwriter = NoProc
  /\ ireaders = {}
  /\ iai \in {"nil", "client"}
  /\ inext = 0
  /\ iret = NoRet

\* s.mu.Lock(); defer s.mu.Unlock(); the &models.Incident{...} literal
Service_CreateIncident_Lock(p) ==
  /\ ipc[p] = "idle"
  /\ inext < MaxIncidents
  /\ CanILock
  /\ iwriter' = p
  /\ inext' = inext + 1
  /\ \E r \in ICreateReqs :
       /\ iop' = [iop EXCEPT ![p] =
                    [name |-> "create", id |-> inext + 1,
                     req |-> [id |-> inext + 1, title |-> r.title,
                              description |-> r.description, severity |-> r.severity,
                              status |-> StatusOpen, source |-> r.source,
                              createdAt |-> now, updatedAt |-> now,
                              resolvedAt |-> NilTime]]]
       /\ ipc' = [ipc EXCEPT ![p] = IF r.severity = "" /\ iai # "nil"
                                     THEN "icr_ai" ELSE "icr_store"]
  /\ iret' = NoRet
  /\ UNCHANGED <<iincidents, ireaders, iai>>

\* s.aiClient.ClassifySeverity(ctx, incident) returns, the lock still held:
\* the severity it gives, or medium when it fails
Service_CreateIncident_AIReturn(p) ==
  /\ ipc[p] = "icr_ai"
  /\ \E sev \in Severities \cup {"error"} :
       iop' = [iop EXCEPT ![p].req.severity =
                 IF sev = "error" THEN SeverityMedium ELSE sev]
  /\ ipc' = [ipc EXCEPT ![p] = "icr_store"]
  /\ iret' = NoRet
  /\ UNCHANGED <<iincidents, iwriter, ireaders, iai, inext>>

\* s.incidents[incident.ID] = incident; return; the deferred Unlock
Service_CreateIncident_Store(p) ==
  /\ ipc[p] = "icr_store"
  /\ iincidents' = [k \in DOMAIN iincidents \cup {iop[p].id} |->
                      IF k = iop[p].id THEN iop[p].req ELSE iincidents[k]]
  /\ iwriter' = NoProc
  /\ IReturn(p, [Returned("create", "nil", iop[p].id) EXCEPT !.val = Some(iop[p].req)])
  /\ UNCHANGED <<ireaders, iai, inext>>

\* s.mu.RLock(); defer s.mu.RUnlock()
Service_GetIncident_RLock(p) ==
  /\ ipc[p] = "idle"
  /\ CanIRLock
  /\ ireaders' = ireaders \cup {p}
  /\ \E id \in KnownUUIDs : iop' = [iop EXCEPT ![p] = [name |-> "get", id |-> id, req |-> <<>>]]
  /\ ipc' = [ipc EXCEPT ![p] = "iget_read"]
  /\ iret' = NoRet
  /\ UNCHANGED <<iincidents, iwriter, iai, inext>>

Service_GetIncident_Read(p) ==
  /\ ipc[p] = "iget_read"
  /\ ireaders' = ireaders \ {p}
  /\ IF iop[p].id \in DOMAIN iincidents
       THEN IReturn(p, [Returned("get", "nil", iop[p].id) EXCEPT
                          !.val = Some(iincidents[iop[p].id])])
       ELSE IReturn(p, Returned("get", "notfound", NilRef))
  /\ UNCHANGED <<iincidents, iwriter, iai, inext>>

Service_ListIncidents_RLock(p) ==
  /\ ipc[p] = "idle"
  /\ CanIRLock
  /\ ireaders' = ireaders \cup {p}
  /\ iop' = [iop EXCEPT ![p] = [name |-> "list", id |-> NoSuchUUID, req |-> <<>>]]
  /\ ipc' = [ipc EXCEPT ![p] = "ilist_scan"]
  /\ iret' = NoRet
  /\ UNCHANGED <<iincidents, iwriter, iai, inext>>

Service_ListIncidents_Scan(p) ==
  /\ ipc[p] = "ilist_scan"
  /\ ireaders' = ireaders \ {p}
  /\ \E sq \in Orders(DOMAIN iincidents) :
       IReturn(p, [Returned("list", "nil", NilRef) EXCEPT !.refs = sq])
  /\ UNCHANGED <<iincidents, iwriter, iai, inext>>

\* s.mu.Lock(); defer s.mu.Unlock()
Service_UpdateIncidentStatus_Lock(p) ==
  /\ ipc[p] = "idle"
  /\ CanILock
  /\ iwriter' = p
  /\ \E id \in KnownUUIDs, st \in Statuses :
       iop' = [iop EXCEPT ![p] = [name |-> "status", id |-> id, req |-> st]]
  /\ ipc' = [ipc EXCEPT ![p] = "ius_body"]
  /\ iret' = NoRet
  /\ UNCHANGED <<iincidents, ireaders, iai, inext>>

\* Status, UpdatedAt, and ResolvedAt when the status is resolved or closed
Service_UpdateIncidentStatus_Body(p) ==
  /\ ipc[p] = "ius_body"
  /\ iwriter' = NoProc
  /\ IF iop[p].id \notin DOMAIN iincidents
       THEN /\ IReturn(p, Returned("status", "notfound", NilRef))
            /\ UNCHANGED iincidents
       ELSE /\ iincidents' =
                 [iincidents EXCEPT ![iop[p].id] =
                    [@ EXCEPT !.status = iop[p].req,
                              !.updatedAt = now,
                              !.resolvedAt = IF iop[p].req \in {StatusResolved, StatusClosed}
                                               THEN now ELSE @]]
            /\ IReturn(p, Returned("status", "nil", iop[p].id))
  /\ UNCHANGED <<ireaders, iai, inext>>

\* SpecI: incident.Service as main.go builds it, with or without an AI client
StepI(p) ==
  \/ Service_CreateIncident_Lock(p) \/ Service_CreateIncident_AIReturn(p)
  \/ Service_CreateIncident_Store(p)
  \/ Service_GetIncident_RLock(p) \/ Service_GetIncident_Read(p)
  \/ Service_ListIncidents_RLock(p) \/ Service_ListIncidents_Scan(p)
  \/ Service_UpdateIncidentStatus_Lock(p) \/ Service_UpdateIncidentStatus_Body(p)

NextI ==
  \/ Tick /\ UNCHANGED <<xvars, ivars, aiClient, everMatched>>
  \/ \E p \in Procs : StepI(p) /\ UNCHANGED <<svars, xvars>>

InitI == SInit /\ IInit /\ XNone

SpecI == InitI /\ [][NextI]_vars

\* ------------------------------------------------------------- handlers.IncidentHandler
\* net/http status codes the handlers write
StatusOK == 200
StatusCreated == 201
StatusNoContent == 204
StatusBadRequest == 400
StatusNotFound == 404
StatusInternalServerError == 500

\* request bodies of POST /incidents: None is a body json.Decode rejects
CreateBodies ==
  { None,
    Some([title |-> "api down", description |-> "note", source |-> "manual",
          severity |-> Some(SeverityCritical), logs |-> <<>>, tags |-> None,
          metadata |-> None, assignedTo |-> ""]),
    Some([title |-> "", description |-> "note", source |-> "manual",
          severity |-> Some(SeverityLow), logs |-> <<>>, tags |-> None,
          metadata |-> None, assignedTo |-> ""]),
    Some([title |-> "api down", description |-> "", source |-> "manual",
          severity |-> Some(SeverityLow), logs |-> <<>>, tags |-> None,
          metadata |-> None, assignedTo |-> ""]),
    Some([title |-> "api down", description |-> "note", source |-> "manual",
          severity |-> Some("urgent"), logs |-> <<>>, tags |-> None,
          metadata |-> None, assignedTo |-> ""]) }

\* request bodies of PUT /incidents/{id}
UpdateBodies ==
  { None,
    Some([NoChange EXCEPT !.status = Some(StatusResolved)]),
    Some([NoChange EXCEPT !.title = Some("")]),
    Some([NoChange EXCEPT !.status = Some("paused")]) }

\* the requests the handler hands to the service
Decoded(Bodies) == {Val(b) : b \in {c \in Bodies : IsSome(c)}}

\* respondError(w, http.StatusBadRequest, ...): the handler returns before it
\* calls the service
respondBadRequest(p, route, cause) ==
  /\ pc[p] = "idle"
  /\ response' = [p |-> p, route |-> route, code |-> StatusBadRequest, cause |-> cause]
  /\ ret' = NoRet
  /\ UNCHANGED <<now, counter, incidents, heap, writer, readers, pc, op, loc, deleted>>

\* the status each handler writes for what the service returned to it
HandlerStatus(r) ==
  CASE r.op = "create"  -> IF r.err # "nil" THEN StatusInternalServerError ELSE StatusCreated
    [] r.op = "get"     -> IF r.err # "nil" THEN StatusNotFound ELSE StatusOK
    [] r.op = "list"    -> IF r.err # "nil" THEN StatusInternalServerError ELSE StatusOK
    [] r.op = "update"  -> IF r.err = "notfound" THEN StatusNotFound
                           ELSE IF r.err # "nil" THEN StatusInternalServerError
                           ELSE StatusOK
    [] r.op = "delete"  -> IF r.err # "nil" THEN StatusNotFound ELSE StatusNoContent
    [] r.op = "analyze" -> StatusOK
    [] r.op = "rca"     -> StatusOK

\* respondJSON / respondError after the service call of goroutine p returned
respond(p) ==
  response' = IF ret'.p = p
                THEN [p |-> p, route |-> ret'.op, code |-> HandlerStatus(ret'),
                      cause |-> "service"]
                ELSE NoResponse

\* POST /api/v1/incidents
IncidentHandler_CreateIncident(p) ==
  \/ /\ None \in CreateBodies
     /\ respondBadRequest(p, "create", "decode")
  \/ /\ \E r \in Decoded(CreateBodies) : r.title = "" \/ r.description = ""
     /\ respondBadRequest(p, "create", "required")
  \/ /\ \/ CreateIncident_LockOf(p, {r \in Decoded(CreateBodies) :
                                      r.title # "" /\ r.description # ""})
        \/ generateID(p) \/ CreateIncident_Build(p)
        \/ CreateIncident_Lock2(p) \/ CreateIncident_Store(p)
     /\ pc[p] = "idle" => Allocated < MaxUpdated
     /\ respond(p)

\* PUT /api/v1/incidents/{id}
IncidentHandler_UpdateIncident(p) ==
  \/ /\ None \in UpdateBodies
     /\ respondBadRequest(p, "update", "decode")
  \/ /\ \/ UpdateIncident_LockOf(p, Decoded(UpdateBodies))
        \/ UpdateIncident_Lookup(p) \/ UpdateIncident_OldStatus(p)
        \/ UpdateIncident_Field(p) \/ UpdateIncident_Done(p)
     /\ respond(p)

\* GET /api/v1/incidents/{id}, and the lookup POST .../analyze and
\* POST .../rca/generate start with
IncidentHandler_GetIncident(p) == GetIncident(p) /\ respond(p)

\* GET /api/v1/incidents
IncidentHandler_ListIncidents(p) == ListIncidents(p) /\ respond(p)

\* DELETE /api/v1/incidents/{id}
IncidentHandler_DeleteIncident(p) == DeleteIncident(p) /\ respond(p)

\* POST /api/v1/incidents/{id}/analyze
IncidentHandler_AnalyzeIncident(p) == AnalyzeIncident(p) /\ respond(p)

\* POST /api/v1/incidents/{id}/rca/generate
IncidentHandler_GenerateRCA(p) == GenerateRCA(p) /\ respond(p)

\* SpecH: the incident endpoints, served by concurrent goroutines
StepH(p) ==
  \/ IncidentHandler_CreateIncident(p) \/ IncidentHandler_GetIncident(p)
  \/ IncidentHandler_ListIncidents(p) \/ IncidentHandler_UpdateIncident(p)
  \/ IncidentHandler_DeleteIncident(p)
  \/ IncidentHandler_AnalyzeIncident(p) \/ IncidentHandler_GenerateRCA(p)

NextH == \E p \in Procs : StepH(p)

SpecH == Init /\ [][NextH /\ UNCHANGED <<raw, parsed, client, reply, ivars, aiClient, everMatched>>]_vars

\* ------------------------------------------------------------- ai: parsing.go
\* the whitespace of strings.TrimSpace and of encoding/json met in the texts
WS == {" ", "\n", "\t", "\r"}

RECURSIVE TrimLeft(_)
TrimLeft(s) == IF Len(s) > 0 /\ s[1] \in WS THEN TrimLeft(Tail(s)) ELSE s

RECURSIVE TrimRight(_)
TrimRight(s) ==
  IF Len(s) > 0 /\ s[Len(s)] \in WS THEN TrimRight(SubSeq(s, 1, Len(s) - 1)) ELSE s

\* strings.TrimSpace
TrimSpace(s) == TrimRight(TrimLeft(s))

\* strings.HasPrefix, HasSuffix, TrimPrefix, TrimSuffix
HasPrefix(s, pre) == Len(s) >= Len(pre) /\ SubSeq(s, 1, Len(pre)) = pre
HasSuffix(s, suf) == Len(s) >= Len(suf) /\ SubSeq(s, Len(s) - Len(suf) + 1, Len(s)) = suf
TrimPrefix(s, pre) == IF HasPrefix(s, pre) THEN SubSeq(s, Len(pre) + 1, Len(s)) ELSE s
TrimSuffix(s, suf) == IF HasSuffix(s, suf) THEN SubSeq(s, 1, Len(s) - Len(suf)) ELSE s

\* strings.Index, strings.LastIndex of a single byte: offsets from 0, -1 if absent
Index(s, c) ==
  IF \E i \in 1..Len(s) : s[i] = c
    THEN (CHOOSE i \in 1..Len(s) : s[i] = c /\ \A j \in 1..(i - 1) : s[j] # c) - 1
    ELSE -1

LastIndex(s, c) ==
  IF \E i \in 1..Len(s) : s[i] = c
    THEN (CHOOSE i \in 1..Len(s) : s[i] = c /\ \A j \in (i + 1)..Len(s) : s[j] # c) - 1
    ELSE -1

\* the byte 0x60 (grave accent), written by its code
GraveAccent == "0x60"
Fence     == <<GraveAccent, GraveAccent, GraveAccent>>
FenceJSON == Fence \o <<"j", "s", "o", "n">>

extractJSON_FirstClosingBrace(s) ==
  LET t == TrimSpace(s)
      u == IF HasPrefix(t, FenceJSON)
             THEN TrimSpace(TrimSuffix(TrimPrefix(t, FenceJSON), Fence))
           ELSE IF HasPrefix(t, Fence)
             THEN TrimSpace(TrimSuffix(TrimPrefix(t, Fence), Fence))
           ELSE t
      start == Index(u, "{")
      end   == Index(u, "}")
  IN IF start # -1 /\ end # -1 /\ start < end
       THEN SubSeq(u, start + 1, end + 1)
       ELSE u

\* extractJSON(s)
extractJSON(s) ==
  LET t == TrimSpace(s)
      u == IF HasPrefix(t, FenceJSON)
             THEN TrimSpace(TrimSuffix(TrimPrefix(t, FenceJSON), Fence))
           ELSE IF HasPrefix(t, Fence)
             THEN TrimSpace(TrimSuffix(TrimPrefix(t, Fence), Fence))
           ELSE t
      start == Index(u, "{")
      end   == LastIndex(u, "}")
  IN IF start # -1 /\ end # -1 /\ start < end
       THEN SubSeq(u, start + 1, end + 1)
       ELSE u

\* encoding/json, for the JSON texts of the model: objects, arrays, strings
\* without escapes, and unsigned integers.  A decoded value:
JString(s) == [kind |-> "string", str |-> s,    items |-> <<>>]
JNumber(s) == [kind |-> "number", str |-> s,    items |-> <<>>]
JArray(vs) == [kind |-> "array",  str |-> <<>>, items |-> vs]
JObject(ms) == [kind |-> "object", str |-> <<>>, items |-> ms]

Digits == {"0", "1", "2", "3", "4", "5", "6", "7", "8", "9"}

Failed    == [ok |-> FALSE, val |-> JString(<<>>), next |-> 0]
Ok(v, n)  == [ok |-> TRUE,  val |-> v, next |-> n]

\* the byte at offset i, or "" past the end
At(s, i) == IF i \in 1..Len(s) THEN s[i] ELSE ""

RECURSIVE SkipWS(_, _)
SkipWS(s, i) == IF At(s, i) \in WS THEN SkipWS(s, i + 1) ELSE i

\* a string literal starting at i: up to the next quote, no control character
ScanString(s, i) ==
  IF At(s, i) # "\"" \/ ~ \E j \in (i + 1)..Len(s) : s[j] = "\""
    THEN Failed
    ELSE LET j == CHOOSE j \in (i + 1)..Len(s) :
                    s[j] = "\"" /\ \A k \in (i + 1)..(j - 1) : s[k] # "\""
         IN IF \E k \in (i + 1)..(j - 1) : s[k] \in {"\n", "\t", "\r"}
              THEN Failed
              ELSE Ok(JString(SubSeq(s, i + 1, j - 1)), j + 1)

RECURSIVE ScanDigits(_, _)
ScanDigits(s, i) == IF At(s, i) \in Digits THEN ScanDigits(s, i + 1) ELSE i

RECURSIVE ScanValue(_, _), ScanElements(_, _, _), ScanMembers(_, _, _)
\* a value starting at i
ScanValue(s, i) ==
  CASE At(s, i) = "\"" -> ScanString(s, i)
    [] At(s, i) \in Digits ->
         IF At(s, i) = "0" /\ At(s, i + 1) \in Digits
           THEN Failed
           ELSE Ok(JNumber(SubSeq(s, i, ScanDigits(s, i) - 1)), ScanDigits(s, i))
    [] At(s, i) = "[" ->
         IF At(s, SkipWS(s, i + 1)) = "]"
           THEN Ok(JArray(<<>>), SkipWS(s, i + 1) + 1)
           ELSE ScanElements(s, SkipWS(s, i + 1), <<>>)
    [] At(s, i) = "{" ->
         IF At(s, SkipWS(s, i + 1)) = "}"
           THEN Ok(JObject(<<>>), SkipWS(s, i + 1) + 1)
           ELSE ScanMembers(s, SkipWS(s, i + 1), <<>>)
    [] OTHER -> Failed

\* the elements of an array from i on, acc holding those before
ScanElements(s, i, acc) ==
  LET v == ScanValue(s, i) IN
  IF ~ v.ok THEN Failed
  ELSE LET m == SkipWS(s, v.next) IN
       IF At(s, m) = "," THEN ScanElements(s, SkipWS(s, m + 1), Append(acc, v.val))
       ELSE IF At(s, m) = "]" THEN Ok(JArray(Append(acc, v.val)), m + 1)
       ELSE Failed

\* the members of an object from i on, acc holding those before
ScanMembers(s, i, acc) ==
  LET k == ScanString(s, i) IN
  IF ~ k.ok \/ At(s, SkipWS(s, k.next)) # ":" THEN Failed
  ELSE LET v == ScanValue(s, SkipWS(s, SkipWS(s, k.next) + 1)) IN
       IF ~ v.ok THEN Failed
       ELSE LET m   == SkipWS(s, v.next)
                mem == [key |-> k.val.str, val |-> v.val]
            IN IF At(s, m) = "," THEN ScanMembers(s, SkipWS(s, m + 1), Append(acc, mem))
               ELSE IF At(s, m) = "}" THEN Ok(JObject(Append(acc, mem)), m + 1)
               ELSE Failed

\* json.Unmarshal([]byte(s), &data) with data map[string]interface{}:
\* None when it returns an error, else the members of the object
Unmarshal(s) ==
  LET v == ScanValue(s, SkipWS(s, 1)) IN
  IF v.ok /\ SkipWS(s, v.next) = Len(s) + 1 /\ v.val.kind = "object"
    THEN Some(v.val.items)
    ELSE None

\* data[key]: the last member of that name
HasKey(data, key) == \E i \in 1..Len(data) : data[i].key = key
Lookup(data, key) ==
  data[CHOOSE i \in 1..Len(data) :
         data[i].key = key /\ \A j \in (i + 1)..Len(data) : data[j].key # key].val

\* getStringValue(data, key)
getStringValue(data, key) ==
  IF HasKey(data, Chars(key)) /\ Lookup(data, Chars(key)).kind = "string"
    THEN Lookup(data, Chars(key)).str
    ELSE <<>>

RECURSIVE StringsOf(_)
StringsOf(items) ==
  IF items = <<>> THEN <<>>
  ELSE (IF Head(items).kind = "string" THEN <<Head(items).str>> ELSE <<>>)
         \o StringsOf(Tail(items))

\* getStringSlice(data, key)
getStringSlice(data, key) ==
  IF HasKey(data, Chars(key)) /\ Lookup(data, Chars(key)).kind = "array"
    THEN StringsOf(Lookup(data, Chars(key)).items)
    ELSE <<>>

\* parseAnalysisResponse(rawResp): the *AnalysisResponse and the error
parseAnalysisResponse(rawResp) ==
  LET data == Unmarshal(extractJSON(rawResp)) IN
  IF data = None
    THEN [res |-> Some([summary |-> rawResp, findings |-> <<>>, rootCauses |-> <<>>,
                        recommendedActions |-> <<>>,
                        suggestedSeverity |-> Chars("unknown"),
                        rawResponse |-> rawResp]),
          err |-> "nil"]
    ELSE [res |-> Some([summary |-> getStringValue(Val(data), "summary"),
                        findings |-> getStringSlice(Val(data), "findings"),
                        rootCauses |-> getStringSlice(Val(data), "root_causes"),
                        recommendedActions |->
                          getStringSlice(Val(data), "recommended_actions"),
                        suggestedSeverity |->
                          getStringValue(Val(data), "suggested_severity"),
                        rawResponse |-> rawResp]),
          err |-> "nil"]

parseRCAResponse_CandidateAsTimeline(rawResp) ==
  LET data == Unmarshal(extractJSON(rawResp)) IN
  IF data = None
    THEN [res |-> Some([timeline |-> extractJSON(rawResp), rootCause |-> <<>>,
                        impact |-> <<>>,
                        immediateResolution |-> <<>>, preventiveMeasures |-> <<>>,
                        lessonsLearned |-> <<>>, rawResponse |-> rawResp]),
          err |-> "nil"]
    ELSE [res |-> Some([timeline |-> getStringValue(Val(data), "timeline"),
                        rootCause |-> getStringValue(Val(data), "root_cause"),
                        impact |-> getStringValue(Val(data), "impact"),
                        immediateResolution |->
                          getStringValue(Val(data), "immediate_resolution"),
                        preventiveMeasures |->
                          getStringSlice(Val(data), "preventive_measures"),
                        lessonsLearned |-> getStringSlice(Val(data), "lessons_learned"),
                        rawResponse |-> rawResp]),
          err |-> "nil"]

\* parseRCAResponse(rawResp)
parseRCAResponse(rawResp) ==
  LET data == Unmarshal(extractJSON(rawResp)) IN
  IF data = None
    THEN [res |-> Some([timeline |-> rawResp, rootCause |-> <<>>, impact |-> <<>>,
                        immediateResolution |-> <<>>, preventiveMeasures |-> <<>>,
                        lessonsLearned |-> <<>>, rawResponse |-> rawResp]),
          err |-> "nil"]
    ELSE [res |-> Some([timeline |-> getStringValue(Val(data), "timeline"),
                        rootCause |-> getStringValue(Val(data), "root_cause"),
                        impact |-> getStringValue(Val(data), "impact"),
                        immediateResolution |->
                          getStringValue(Val(data), "immediate_resolution"),
                        preventiveMeasures |->
                          getStringSlice(Val(data), "preventive_measures"),
                        lessonsLearned |-> getStringSlice(Val(data), "lessons_learned"),
                        rawResponse |-> rawResp]),
          err |-> "nil"]

\* parseSummarizeResponse(rawResp)
parseSummarizeResponse(rawResp) ==
  LET data == Unmarshal(extractJSON(rawResp)) IN
  IF data = None
    THEN [res |-> Some([summary |-> rawResp, keyInsights |-> <<>>, alerts |-> <<>>,
                        rawResponse |-> rawResp]),
          err |-> "nil"]
    ELSE [res |-> Some([summary |-> getStringValue(Val(data), "summary"),
                        keyInsights |-> getStringSlice(Val(data), "key_insights"),
                        alerts |-> getStringSlice(Val(data), "alerts"),
                        rawResponse |-> rawResp]),
          err |-> "nil"]

\* --- the completions of the model
\* a JSON string literal
Quote(bytes) == <<"\"">> \o bytes \o <<"\"">>
Q(word) == Quote(Chars(word))

\* completions whose candidate is a JSON object
ValidDocs ==
  { <<"{">> \o Q("summary") \o <<":">> \o Q("slow") \o <<",">>
      \o Q("findings") \o <<":", "[">> \o Q("error") \o <<",">> \o Q("note") \o <<"]", ",">>
      \o Q("timeline") \o <<":">> \o Q("down") \o <<",">>
      \o Q("alerts") \o <<":", "[">> \o Q("warning") \o <<"]", "}">>,
    <<"{">> \o Q("summary") \o <<":">> \o Quote(<<"}", "{">>) \o <<",">>
      \o Q("key_insights") \o <<":", "[">> \o Q("error") \o <<",", "1", "]", ",">>
      \o Q("root_cause") \o <<":">> \o Q("failure") \o <<"}">>,
    <<"{", "}">>,
    <<"{", " ">> \o Q("summary") \o <<" ", ":", " ">> \o Q("slow") \o <<" ", ",", "\n", " ">>
      \o Q("root_cause") \o <<":", "5", ",">>
      \o Q("summary") \o <<":">> \o Q("note") \o <<"\n", "}">> }

\* completions whose candidate is not one
InvalidDocs ==
  { <<"{">> \o Q("summary") \o <<":">> \o Q("slow"),
    Chars("slow"),
    <<"}", " ">> \o Chars("note") \o <<" ", "{">>,
    <<"{">> \o Q("summary") \o <<":">> \o Q("slow") \o <<"}", " ", "{">>
      \o Q("summary") \o <<":">> \o Q("note") \o <<"}">>,
    <<"{">> \o Chars("summary") \o <<"}">>,
    <<>> }

\* how a model wraps its answer
Wrappings == {"bare", "fence json", "fence", "prose", "space", "open fence", "fence tag"}

Wrap(w, d) ==
  CASE w = "bare"       -> d
    [] w = "fence json" -> FenceJSON \o <<"\n">> \o d \o <<"\n">> \o Fence
    [] w = "fence"      -> Fence \o <<"\n">> \o d \o <<"\n">> \o Fence
    [] w = "prose"      -> Chars("note") \o <<":", " ">> \o d \o <<" ">> \o Chars("slow")
    [] w = "space"      -> <<" ", "\n">> \o d \o <<"\n", " ">>
    [] w = "open fence" -> FenceJSON \o <<"\n">> \o d
    [] w = "fence tag"  -> Fence \o <<"g", "o", "\n">> \o d \o <<"\n">> \o Fence \o <<"\n">>

RawTexts == {Wrap(w, d) : w \in Wrappings, d \in ValidDocs \cup InvalidDocs}

\* the provider has answered with a completion
InitP ==
  /\ SInit /\ INone
  /\ response = NoResponse /\ client = NoClient /\ reply = NoReply
  /\ raw \in RawTexts /\ parsed = NoParse

\* the client parses the completion
ParseAnalysis ==
  /\ parsed.fn = "none"
  /\ parsed' = [fn |-> "analysis"] @@ parseAnalysisResponse(raw)
  /\ UNCHANGED raw

ParseRCA ==
  /\ parsed.fn = "none"
  /\ parsed' = [fn |-> "rca"] @@ parseRCAResponse(raw)
  /\ UNCHANGED raw

ParseSummarize ==
  /\ parsed.fn = "none"
  /\ parsed' = [fn |-> "summarize"] @@ parseSummarizeResponse(raw)
  /\ UNCHANGED raw

\* SpecP: the parsers of parsing.go applied to completions
NextP == ParseAnalysis \/ ParseRCA \/ ParseSummarize

SpecP == InitP /\ [][NextP /\ UNCHANGED <<svars, ivars, response, client, reply>>]_vars

\* ------------------------------------------------------------- ai: clients
ProviderOpenAI    == "openai"
ProviderAnthropic == "anthropic"

\* ai.ClientConfig values (pkg/ai) and ai.Config values (internal/ai)
ClientConfigs ==
  [provider : {ProviderOpenAI, ProviderAnthropic, "gemini"},
   apiKey : {"", "sk-1"}, model : {"", "m1"}]

InternalConfigs ==
  [provider : {ProviderOpenAI, ProviderAnthropic, "gemini"},
   openAIKey : {"", "sk-1"}, anthropicKey : {"", "sk-2"}]

\* a constructor's results: the client (None: nil) and the error
Built(kind, model) == [client |-> Some([kind |-> kind, model |-> model]), err |-> NilError]
NotBuilt(err)      == [client |-> None, err |-> err]

\* NewOpenAIClient(cfg), NewAnthropicClient(cfg) of pkg/ai
NewOpenAIClient(cfg) ==
  IF cfg.apiKey = "" THEN NotBuilt(Error("ErrNoAPIKey", ""))
  ELSE Built("OpenAIClient", IF cfg.model = "" THEN "gpt-4" ELSE cfg.model)

NewAnthropicClient(cfg) ==
  IF cfg.apiKey = "" THEN NotBuilt(Error("ErrNoAPIKey", ""))
  ELSE Built("AnthropicClient",
             IF cfg.model = "" THEN "claude-3-5-sonnet-20241022" ELSE cfg.model)

\* NewClient(cfg) of pkg/ai
NewClient(cfg) ==
  IF cfg.apiKey = "" THEN NotBuilt(Error("ErrNoAPIKey", ""))
  ELSE CASE cfg.provider = ProviderOpenAI    -> NewOpenAIClient(cfg)
         [] cfg.provider = ProviderAnthropic -> NewAnthropicClient(cfg)
         [] OTHER -> NotBuilt(Error("ErrProviderNotSupported", ""))

\* NewOpenAIClient(apiKey, model), NewAnthropicClient(apiKey, model) of internal/ai
Internal_NewOpenAIClient(apiKey) ==
  IF apiKey = "" THEN NotBuilt(Error("", "OpenAI API key is required"))
  ELSE Built("internal OpenAIClient", "gpt-4")

Internal_NewAnthropicClient(apiKey) ==
  IF apiKey = "" THEN NotBuilt(Error("", "Anthropic API key is required"))
  ELSE Built("internal AnthropicClient", "claude-3-5-sonnet-20241022")

\* NewClient(config) of internal/ai
Internal_NewClient(config) ==
  CASE config.provider = ProviderOpenAI    -> Internal_NewOpenAIClient(config.openAIKey)
    [] config.provider = ProviderAnthropic -> Internal_NewAnthropicClient(config.anthropicKey)
    [] OTHER -> Internal_NewOpenAIClient(config.openAIKey)

\* what the HTTP exchange with the provider can come to
Exchanges ==
  [kind : {"deadline", "refused", "deadline in body", "status 500", "not json", "empty"},
   text : {<<>>}]
  \cup [kind : {"ok"}, text : RawTexts]

\* (c *OpenAIClient) call, (c *AnthropicClient) call: the completion and the error
call(x) ==
  CASE x.kind = "deadline" ->
         [text |-> <<>>, err |-> Error("", "context.DeadlineExceeded")]
    [] x.kind = "refused" ->
         [text |-> <<>>, err |-> Error("", "connection refused")]
    [] x.kind = "deadline in body" ->
         [text |-> <<>>, err |-> Error("", "context.DeadlineExceeded")]
    [] x.kind = "status 500" ->
         [text |-> <<>>, err |-> Error("", "API error")]
    [] x.kind = "not json" ->
         [text |-> <<>>, err |-> Error("ErrInvalidResponse", "json")]
    [] x.kind = "empty" ->
         [text |-> <<>>, err |-> Error("ErrInvalidResponse", "")]
    [] x.kind = "ok" ->
         [text |-> x.text, err |-> NilError]

\* the methods of OpenAIClient and AnthropicClient: call, then parse
Client_AnalyzeIncident(x) ==
  IF ~ call(x).err.nil THEN [res |-> None, err |-> call(x).err]
  ELSE [res |-> parseAnalysisResponse(call(x).text).res, err |-> NilError]

Client_GenerateRCA(x) ==
  IF ~ call(x).err.nil THEN [res |-> None, err |-> call(x).err]
  ELSE [res |-> parseRCAResponse(call(x).text).res, err |-> NilError]

Client_SummarizeLogs(x) ==
  IF ~ call(x).err.nil THEN [res |-> None, err |-> call(x).err]
  ELSE [res |-> parseSummarizeResponse(call(x).text).res, err |-> NilError]

Client_Health(x) == [res |-> None, err |-> call(x).err]

\* the methods of NoOpClient
NoOpClient_AnalyzeIncident ==
  [res |-> Some([summary |-> Chars("AI analysis not available (provider not configured)"),
                 findings |-> <<>>, rootCauses |-> <<>>, recommendedActions |-> <<>>,
                 suggestedSeverity |-> Chars("unknown"), rawResponse |-> <<>>]),
   err |-> NilError]

NoOpClient_GenerateRCA ==
  [res |-> Some([timeline |->
                   Chars("AI RCA generation not available (provider not configured)"),
                 rootCause |-> <<>>, impact |-> <<>>, immediateResolution |-> <<>>,
                 preventiveMeasures |-> <<>>, lessonsLearned |-> <<>>,
                 rawResponse |-> <<>>]),
   err |-> NilError]

NoOpClient_SummarizeLogs ==
  [res |-> Some([summary |->
                   Chars("Log summarization not available (provider not configured)"),
                 keyInsights |-> <<>>, alerts |-> <<>>, rawResponse |-> <<>>]),
   err |-> NilError]

NoOpClient_Health == [res |-> None, err |-> Error("", "AI provider not configured")]

\* the program constructs its AI client
Construct_NewClient ==
  /\ \E cfg \in ClientConfigs :
       client' = [factory |-> "pkg/ai", cfg |-> cfg] @@ NewClient(cfg)
  /\ reply' = NoReply

Construct_Internal_NewClient ==
  /\ \E config \in InternalConfigs :
       client' = [factory |-> "internal/ai", cfg |-> config] @@ Internal_NewClient(config)
  /\ reply' = NoReply

\* NewNoOpClient(provider, model)
Construct_NewNoOpClient ==
  /\ client' = [factory |-> "NewNoOpClient", cfg |-> <<>>]
                 @@ Built("NoOpClient", "gpt-4")
  /\ reply' = NoReply

\* a method of the constructed client is called
Invoke(method, real, noop) ==
  /\ IsSome(client.client)
  /\ \/ /\ Val(client.client).kind \in {"OpenAIClient", "AnthropicClient"}
        /\ \E x \in Exchanges :
             reply' = [method |-> method, exchange |-> x.kind] @@ real[x]
     \/ /\ Val(client.client).kind = "NoOpClient"
        /\ reply' = [method |-> method, exchange |-> "none"] @@ noop
  /\ UNCHANGED client

Invoke_AnalyzeIncident ==
  Invoke("AnalyzeIncident", [x \in Exchanges |-> Client_AnalyzeIncident(x)],
         NoOpClient_AnalyzeIncident)

Invoke_GenerateRCA ==
  Invoke("GenerateRCA", [x \in Exchanges |-> Client_GenerateRCA(x)], NoOpClient_GenerateRCA)

Invoke_SummarizeLogs ==
  Invoke("SummarizeLogs", [x \in Exchanges |-> Client_SummarizeLogs(x)],
         NoOpClient_SummarizeLogs)

Invoke_Health == Invoke("Health", [x \in Exchanges |-> Client_Health(x)], NoOpClient_Health)

\* SpecA: construction of the AI client and the calls made on it
NextA ==
  \/ Construct_NewClient \/ Construct_Internal_NewClient \/ Construct_NewNoOpClient
  \/ Invoke_AnalyzeIncident \/ Invoke_GenerateRCA \/ Invoke_SummarizeLogs \/ Invoke_Health

SpecA == Init /\ [][NextA /\ UNCHANGED <<svars, ivars, response, raw, parsed>>]_vars

\* ------------------------------------------------------------- claims
\* C1: the IDs generated by CreateIncident are pairwise distinct, whether the
\* calls are sequential or concurrent, and an ID is not generated again after
\* its incident was deleted (heap keeps every incident ever built).
C1_DistinctIDs ==
  \A i, j \in 1..Len(heap) : i # j => heap[i].id # heap[j].id

\* a CreateIncident returns after an earlier incident was deleted
C1_Witness ==
  /\ ret.op = "create"
  /\ Len(heap) >= 2
  /\ deleted # {}
  /\ ret.id \notin deleted

\* C2: a goroutine whose AI call is in progress (AnalyzeIncident, GenerateRCA,
\* SummarizeLogs) holds the store lock neither for reading nor for writing.
C2_NoLockDuringAICall ==
  \A p \in Procs :
    pc[p] \in {"an_call", "an_ai", "rca_call", "rca_ai", "sum_ai"} =>
      writer # p /\ p \notin readers

\* an AI call of AnalyzeIncident is in progress while another goroutine writes
C2_Witness ==
  \E p, q \in Procs : pc[p] = "an_ai" /\ writer = q /\ pc[q] = "rca_write"

\* C4: an AnalyzeIncident or GenerateRCA whose incident was deleted between
\* its read and its write-back returns NotFound, not success.
C4_DeletedDuringCallGivesNotFound ==
  (ret.op \in {"analyze", "rca"} /\ ret.id \in deleted /\ ret.err \notin AIErrors)
    => ret.err = "notfound"

\* C5: an ID whose DeleteIncident returned success is in the store in no later
\* state, GetIncident of it returns NotFound and ListIncidents does not return
\* it, also after the write-back of an AnalyzeIncident or GenerateRCA that had
\* read the incident before the delete.
C5_DeletedNeverResurrected ==
  /\ \A id \in deleted : id \notin DOMAIN incidents
  /\ (ret.op = "get" /\ ret.id \in deleted) => ret.err = "notfound"
  /\ ret.op = "list" => \A i \in DOMAIN ret.refs : heap[ret.refs[i]].id \notin deleted

\* the write-back of an AnalyzeIncident lands on an incident already deleted
C5_Witness ==
  /\ ret.op = "analyze"
  /\ ret.err = "nil"
  /\ ret.id \in deleted
  /\ IsSome(heap[ret.ref].aiAnalysis)


\* the goroutines with an UpdateIncident under way on incident i
Updating(i) == {q \in Goroutines : op[q].name = "update" /\ loc[q].ref = i}

C7_ResolvedOrClosedHasResolvedAt ==
  \A id \in DOMAIN incidents :
    (Updating(incidents[id]) = {} /\
     heap[incidents[id]].status \in {StatusResolved, StatusClosed})
      => heap[incidents[id]].resolvedAt # NilTime

\* the (title, severity) pairs one request writes as a whole
WholePairs ==
  {<<r.title, IF IsSome(r.severity) THEN Val(r.severity)
              ELSE classifySeverity(r.title, r.description)>> : r \in CreateReqs}
  \cup {<<Val(r.title), Val(r.severity)>> :
          r \in {u \in UpdateReqs : IsSome(u.title) /\ IsSome(u.severity)}}

\* C8: concurrent UpdateIncident calls on one ID are linearized: once they have
\* returned, title and severity are those of one request, not title of one
\* update and severity of another.
C8_UpdatesLinearized ==
  \A i \in 1..Len(heap) :
    Updating(i) = {} => <<heap[i].title, heap[i].severity>> \in WholePairs

\* q has assigned some field of its incident and has assignments left
MidUpdate(q) ==
  /\ op[q].name = "update"
  /\ pc[q] \in {UpdStages[k] : k \in DOMAIN UpdStages}
  /\ \E j \in 1..(StageIndex(pc[q]) - 1) :
       /\ UpdStages[j] # "upd_oldstatus"
       /\ Applies(UpdStages[j], op[q].req, loc[q].old)

\* C9: while a goroutine holds the read lock (GetIncident, ListIncidents), no
\* stored incident is in an intermediate state of an UpdateIncident.
C9_NoTornRead ==
  \A p \in readers :
    \A q \in Procs :
      ~ (MidUpdate(q) /\ loc[q].ref \in Range(incidents))


\* C3: while a CreateIncident of incident.Service waits for the AI severity
\* classification, it does not hold the lock that GetIncident, ListIncidents
\* and UpdateIncidentStatus need.
C3_CreateDoesNotBlockDuringAICall ==
  \A p \in Procs : ipc[p] = "icr_ai" => iwriter # p

\* C10: with no mutation method of the service called, GetIncident returns the
\* incident as CreateIncident stored it, whatever callers did to the values
\* returned to them.
C10_ReturnedIncidentIsACopy ==
  (ret.op = "get" /\ ret.err = "nil") =>
     heap[ret.ref].title \in {r.title : r \in CreateReqs}


\* C11: the AIAnalysis of an incident is always, as a whole, what one
\* AnalyzeIncident call built from its own AI response (never fields of two
\* calls), and a write-back replaces whatever analysis was there by the
\* analysis of the call writing back.
C11_AnalysisReplacedWhole ==
  [][/\ \A i \in 1..Len(heap') :
          IsSome(heap'[i].aiAnalysis) =>
            \E a \in AnalysisResponses, t \in Times :
              Val(heap'[i].aiAnalysis) = NewAIAnalysis(a, t)
     /\ \A p \in Procs :
          (pc[p] = "an_write" /\ pc'[p] = "idle") =>
            heap'[loc[p].ref].aiAnalysis = Some(NewAIAnalysis(Val(loc[p].resp), now))]_vars

\* one of two AnalyzeIncident calls on an incident has written back, the other
\* holds a different AI response and waits for the lock to write back
C11_Witness ==
  /\ ret.op = "analyze" /\ ret.err = "nil"
  /\ \E q \in Procs :
       /\ q # ret.p
       /\ pc[q] = "an_lock"
       /\ loc[q].ref = ret.ref
       /\ Val(loc[q].resp).summary # Val(heap[ret.ref].aiAnalysis).summary


\* C12: when a GenerateRCA call returns success, the incident it returns has
\* both an AIAnalysis and an RCADocument (the Analyze step having run first
\* when the incident had no analysis).
C12_RCAAlsoAnalyzes ==
  (ret.op = "rca" /\ ret.err = "nil") =>
     /\ IsSome(heap[ret.ref].rcaDocument)
     /\ IsSome(heap[ret.ref].aiAnalysis)


\* the goroutines whose next step is the map lookup of GetIncident,
\* UpdateIncident or DeleteIncident
AtLookup(p) ==
  \/ pc[p] = "get_read" /\ op[p].name = "get"
  \/ pc[p] = "upd_lookup"
  \/ pc[p] = "del_body"

C14_NotFoundBeforeAICall ==
  [][\A p \in Procs :
       (pc[p] = "get_read" /\ op[p].name \in {"analyze", "rca"} /\ pc'[p] # pc[p]
          /\ op[p].id \notin DOMAIN incidents) =>
            /\ ret'.p = p /\ ret'.op = op[p].name
            /\ ret'.err = "notfound"
            /\ ret'.calls = 0]_vars

\* AnalyzeIncident of a deleted ID has returned NotFound
C14_Witness ==
  /\ ret.op = "analyze"
  /\ ret.err = "notfound"
  /\ ret.id \in deleted


\* the positions of AnalyzeIncident and GenerateRCA up to the return of the AI call
BeforeWriteBack == {"get_read", "an_call", "an_ai", "rca_call", "rca_ai"}

\* C15: an AnalyzeIncident or GenerateRCA whose AI call fails (provider error
\* or deadline) returns the error with the incident it read, holds no lock
\* when it returns, and has written nothing: no step of the call up to and
\* including the failing return changes the map or any incident.
C15_AIFailureWritesNothing ==
  [][\A p \in Procs :
       (op[p].name \in {"analyze", "rca"} /\ pc'[p] # pc[p]) =>
          /\ pc[p] \in BeforeWriteBack =>
               heap' = heap /\ incidents' = incidents
          /\ (ret'.p = p /\ ret'.err \in AIErrors) =>
               /\ pc[p] \in {"an_ai", "rca_ai"}
               /\ ret'.ref = loc[p].ref /\ ret'.ref # NilRef
               /\ writer' # p /\ p \notin readers']_vars

\* GenerateRCA has failed on a deadline for an incident that was analysed
\* before: the incident comes back, its analysis in place and no RCA document
C15_Witness ==
  /\ ret.op = "rca"
  /\ ret.err = "timeout"
  /\ ret.ref # NilRef
  /\ IsSome(heap[ret.ref].aiAnalysis)
  /\ ~ IsSome(heap[ret.ref].rcaDocument)


\* C16: AnalyzeIncident of an incident in the store, on a service built with
\* no AI client, returns an AIUnavailable error (it does not panic).
C16_NoClientGivesUnavailable ==
  (ret.op = "analyze" /\ aiClient = "nil" /\ ret.err # "notfound") =>
     /\ ret.err = "unavailable"
     /\ ret.calls = 0


\* C17: a CreateIncident of incident.Service returns no error and an incident
\* whose severity is critical, high, medium or low, whether the request gave
\* a severity or not and whether an AI client is configured or not.
C17_CreatedSeverityIsALevel ==
  iret.op = "create" =>
     /\ iret.err = "nil"
     /\ Val(iret.val).severity \in Severities


\* C18: an incident created without a severity has status open and the
\* severity of the first keyword tier that matches its title and description
\* as a substring, letter case ignored: critical / production down / data loss
\* give critical, else error / failure / down give high, else warning /
\* degraded / slow give medium, else low.
C18_KeywordTiersIgnoreCase ==
  LET Upper == <<"A","B","C","D","E","F","G","H","I","J","K","L","M",
                 "N","O","P","Q","R","S","T","U","V","W","X","Y","Z">>
      Lower == <<"a","b","c","d","e","f","g","h","i","j","k","l","m",
                 "n","o","p","q","r","s","t","u","v","w","x","y","z">>
      Fold(c) == IF \E k \in 1..26 : Upper[k] = c
                   THEN Lower[CHOOSE k \in 1..26 : Upper[k] = c] ELSE c
      FoldAll(sq) == [k \in DOMAIN sq |-> Fold(sq[k])]
      Has(text, kws) ==
        \E kw \in kws :
          \E k \in 0..(Len(text) - Len(Chars(kw))) :
            SubSeq(FoldAll(text), k + 1, k + Len(Chars(kw))) = FoldAll(Chars(kw))
      Tier(text) ==
        IF Has(text, {"critical", "production down", "data loss"}) THEN SeverityCritical
        ELSE IF Has(text, {"error", "failure", "down"}) THEN SeverityHigh
        ELSE IF Has(text, {"warning", "degraded", "slow"}) THEN SeverityMedium
        ELSE SeverityLow
  IN (ret.op = "create" /\ ret.err = "nil") =>
       /\ heap[ret.ref].status = StatusOpen
       /\ heap[ret.ref].severity =
            Tier(Chars(heap[ret.ref].title) \o <<" ">> \o Chars(heap[ret.ref].description))


\* C19: ListIncidents returns no incident twice, and every incident it returns
\* is one that satisfies every supplied filter: it has satisfied them all at
\* some moment up to the return.
C19_ListReturnsMatchingIncidents ==
  [][\A p \in Goroutines :
       (op[p].name = "list" /\ ret'.p = p /\ ret'.op = "list") =>
          /\ \A j, k \in DOMAIN ret'.refs : j # k => ret'.refs[j] # ret'.refs[k]
          /\ \A k \in DOMAIN ret'.refs :
               <<ret'.refs[k], op[p].req>> \in everMatched']_vars


\* C20: the incident a CreateIncident returns has a non-empty ID, status open,
\* no resolved_at, and the title, description and (when supplied) severity of
\* the request, and at that moment the store holds it under its ID; a
\* GetIncident that succeeds returns the incident of the ID asked for.
C20_CreatedIncidentAsRequested ==
  [][/\ \A p \in Procs :
          (op[p].name = "create" /\ ret'.p = p /\ ret'.op = "create") =>
            LET inc == heap'[ret'.ref] IN
            /\ ret'.err = "nil"
            /\ Len(inc.id) > 0 /\ ret'.id = inc.id
            /\ inc.status = StatusOpen
            /\ inc.resolvedAt = NilTime
            /\ inc.title = op[p].req.title
            /\ inc.description = op[p].req.description
            /\ IsSome(op[p].req.severity) => inc.severity = Val(op[p].req.severity)
            /\ inc.id \in DOMAIN incidents' /\ incidents'[inc.id] = ret'.ref
     /\ (ret'.op = "get" /\ ret'.err = "nil") =>
          /\ heap'[ret'.ref].id = ret'.id
          /\ incidents'[ret'.id] = ret'.ref]_vars

\* GetIncident has returned an incident that was created without a severity
\* and is as CreateIncident built it
C20_Witness ==
  /\ ret.op = "get" /\ ret.err = "nil"
  /\ heap[ret.ref].id = ret.id
  /\ heap[ret.ref].status = StatusOpen
  /\ heap[ret.ref].title = "api down"
  /\ heap[ret.ref].severity = SeverityHigh


\* C21: every incident has updated_at >= created_at; an incident is built with
\* both set to the time of its creation, and a successful UpdateIncident,
\* AnalyzeIncident or GenerateRCA leaves updated_at at the time of its write.
C21_UpdatedAtRefreshed ==
  [][/\ \A i \in 1..Len(heap') : heap'[i].updatedAt >= heap'[i].createdAt
     /\ Len(heap') > Len(heap) =>
          /\ heap'[Len(heap')].createdAt = now
          /\ heap'[Len(heap')].updatedAt = now
     /\ (ret'.op \in {"update", "analyze", "rca"} /\ ret'.err = "nil") =>
          heap'[ret'.ref].updatedAt = now]_vars

\* GenerateRCA has written back after the second the incident was created in
C21_Witness ==
  /\ ret.op = "rca" /\ ret.err = "nil"
  /\ heap[ret.ref].updatedAt > heap[ret.ref].createdAt
  /\ heap[ret.ref].updatedAt = now


\* C22: every stored incident is well-formed: its title and description are
\* not empty, its severity is critical, high, medium, low or unknown, and its
\* status is open, in_progress, resolved or closed; requests sent to
\* POST /incidents and PUT /incidents/{id} never store anything else.
C22_StoredWellFormed ==
  \A id \in DOMAIN incidents :
    LET inc == heap[incidents[id]] IN
      /\ inc.title # "" /\ inc.description # ""
      /\ inc.severity \in {SeverityCritical, SeverityHigh, SeverityMedium, SeverityLow,
                           SeverityUnknown}
      /\ inc.status \in {StatusOpen, StatusInProgress, StatusResolved, StatusClosed}


\* C28: on every incident endpoint the status code tells the outcome: a
\* request the handler rejects gets 400, an unknown ID gets 404, a failure of
\* the AI provider gets a 5xx, and 200, 201 or 204 are written only when the
\* service call succeeded.
C28_StatusTellsOutcome ==
  response.code # NoStatus =>
    /\ response.cause # "service" => response.code = StatusBadRequest
    /\ response.cause = "service" =>
         /\ ret.err = "notfound" => response.code = StatusNotFound
         /\ ret.err \in AIErrors => response.code >= StatusInternalServerError
         /\ response.code \in {StatusOK, StatusCreated, StatusNoContent} => ret.err = "nil"


\* C23: for a JSON object J, the completions fence+json+J+fence, fence+J+fence
\* and prefix+J+suffix (no brace in prefix and suffix) have J as their JSON
\* candidate, and each parser returns for them the field values it returns
\* for J alone.
C23_WrappedParsesAsBare ==
  \A w \in {"fence json", "fence", "prose"}, J \in ValidDocs :
    (raw = Wrap(w, J) /\ parsed.fn # "none") =>
      LET bare == CASE parsed.fn = "analysis"  -> parseAnalysisResponse(J)
                    [] parsed.fn = "rca"       -> parseRCAResponse(J)
                    [] parsed.fn = "summarize" -> parseSummarizeResponse(J)
      IN /\ extractJSON(raw) = J
         /\ parsed.err = bare.err
         /\ \A f \in DOMAIN Val(bare.res) \ {"rawResponse"} :
              Val(parsed.res)[f] = Val(bare.res)[f]

\* a fenced completion with a json tag was parsed into its fields
C23_Witness ==
  /\ parsed.fn = "analysis"
  /\ \E J \in ValidDocs : raw = Wrap("fence json", J)
  /\ Val(parsed.res).summary = Chars("slow")
  /\ Val(parsed.res).findings = <<Chars("error"), Chars("note")>>

\* C24: every parser returns a result and a nil error for every completion;
\* when the JSON candidate does not decode, the summary (the timeline, for the
\* RCA) is the completion unchanged and every list of the result is empty.
C24_ParsersNeverFail ==
  parsed.fn # "none" =>
    /\ parsed.res # None
    /\ parsed.err = "nil"
    /\ Unmarshal(extractJSON(raw)) = None =>
         LET r == Val(parsed.res) IN
           CASE parsed.fn = "analysis" ->
                  /\ r.summary = raw
                  /\ r.findings = <<>> /\ r.rootCauses = <<>>
                  /\ r.recommendedActions = <<>>
             [] parsed.fn = "rca" ->
                  /\ r.timeline = raw
                  /\ r.preventiveMeasures = <<>> /\ r.lessonsLearned = <<>>
             [] parsed.fn = "summarize" ->
                  /\ r.summary = raw
                  /\ r.keyInsights = <<>> /\ r.alerts = <<>>

\* parseRCAResponse fell back on a completion that is not its own candidate
C24_Witness ==
  /\ parsed.fn = "rca"
  /\ Unmarshal(extractJSON(raw)) = None
  /\ extractJSON(raw) # raw
  /\ Val(parsed.res).timeline = raw


\* C25: a call of an AI client that ends because the deadline of its context
\* (or the timeout of its HTTP client) has passed returns ErrTimeout, and no
\* other failure of the provider does.
C25_DeadlineGivesErrTimeout ==
  reply.method # "none" =>
    /\ reply.exchange \in {"deadline", "deadline in body"} =>
         reply.err.sentinel = "ErrTimeout"
    /\ reply.exchange \in {"refused", "status 500", "not json", "empty"} =>
         (~ reply.err.nil /\ reply.err.sentinel # "ErrTimeout")

\* C26: NewClient of pkg/ai and NewClient of internal/ai, given a provider
\* that is neither openai nor anthropic, return an error and no client.
C26_UnknownProviderIsAnError ==
  (/\ client.factory \in {"pkg/ai", "internal/ai"}
   /\ client.cfg.provider \notin {ProviderOpenAI, ProviderAnthropic})
    => (client.client = None /\ ~ client.err.nil)

\* C27: a configuration without API key makes NewClient return the NoOp
\* client and no error; the methods of that client return a placeholder
\* with empty lists and a nil error, and its Health returns an error.
C27_NoKeySelectsNoOp ==
  /\ (/\ client.factory = "pkg/ai"
      /\ client.cfg.apiKey = "")
       => (IsSome(client.client) /\ Val(client.client).kind = "NoOpClient"
           /\ client.err.nil)
  /\ (/\ client.factory = "internal/ai"
      /\ client.cfg.openAIKey = "" /\ client.cfg.anthropicKey = "")
       => (IsSome(client.client) /\ Val(client.client).kind = "NoOpClient"
           /\ client.err.nil)
  /\ (IsSome(client.client) /\ Val(client.client).kind = "NoOpClient"
      /\ reply.method # "none")
       => IF reply.method = "Health" THEN ~ reply.err.nil
          ELSE reply.err.nil /\ IsSome(reply.res)


C30_LockReleasedAndOperationsTerminate ==
  /\ [](/\ writer # NoProc =>
             /\ pc[writer] \in {"cr_genid", "cr_store", "upd_lookup", "del_body",
                                "an_write", "rca_write"}
             /\ readers = {}
        /\ \A p \in readers : pc[p] \in {"get_read", "list_scan", "list_sev"}
        /\ \A p \in Procs :
             pc[p] \in {"cr_lock", "an_lock", "rca_lock"} =>
               (writer # p /\ p \notin readers))
  /\ \A p \in Procs : (pc[p] # "idle") ~> (pc[p] = "idle")

\* CreateIncident waits for the lock of its insert while DeleteIncident holds it
C30_Witness ==
  \E p, q \in Procs :
    /\ p # q
    /\ pc[p] = "cr_lock" /\ writer = q /\ pc[q] = "del_body"

====
